---------------------------- MODULE Spec2Model ----------------------------
(***************************************************************************)
(* A model of the human-behaviour simulation engine: the temporal entropy  *)
(* model and its timing budget (temporal_entropy.py), the element safety   *)
(* classifier and the navigation behaviour (reading_mimicry.py), the path  *)
(* planner (kinematic_mouse.py) and the session orchestrator               *)
(* (infiltrator_complete.py).                                              *)
(*                                                                         *)
(* Units: every time is an integer number of milliseconds (the source      *)
(* holds seconds as floats: 0.24 s is 240).  A multiplier is a rational    *)
(* <<numerator, denominator>>.  A Gaussian draw random.gauss(mu, sigma) is *)
(* mu + z * sigma for a standard deviate z the environment chooses.        *)
(***************************************************************************)
EXTENDS Integers, Sequences, FiniteSets, TLC

VARIABLES
    \* ---- TemporalEntropy.PROFILES: the table of the class, as it stands
    profiles,
    \* ---- TemporalEntropy.generate_delay: the last call and its result
    sample,
    \* ---- TemporalEntropy.burst_activity: the arguments and draws of a call,
    \*      the multipliers it passed and the delays it returned
    burst,
    \* ---- TemporalEntropy.generate_reading_time / generate_typing_time: the
    \*      arguments and the draw of a call, and its outcome
    text_call,
    \* ---- TimingBudget: the object's fields, and the last allocate call
    total_budget, remaining_budget, actions_taken, alloc, n_calls,
    \*      the sum of the delays allocate has returned so far, and the last
    \*      get_remaining_time call
    handed_out, remaining_time,
    \* ---- HoneypotDetector: the element a selector names on the page (or none),
    \*      the last is_element_safe / is_element_visible call on it, and the
    \*      calls repeated after them
    element, safe_call, visible_call, repeat_call,
    \* ---- NavigationBehavior.safe_click: the call under way, its position, the
    \*      verdicts it got and the commands it issued to the page
    click_call,
    \* ---- HumanMouseMovement.generate_path: the arguments and random draws of
    \*      a call, and the trajectory it returned
    path_call,
    \* ---- InfiltratorSession.execute_mission: the position of the mission, the
    \*      ScrollBehavior object, the page, the commands of the step under way
    \*      and the clicks issued so far
    mission, scroll_behavior, page, step_cmds, events

delayVars  == << profiles, sample, burst >>
textVars   == << text_call >>
budgetVars == << total_budget, remaining_budget, actions_taken, alloc, n_calls,
                 handed_out, remaining_time >>
classVars  == << element, safe_call, visible_call, repeat_call >>
clickVars  == << click_call >>
pathVars   == << path_call >>
sessVars   == << mission, scroll_behavior, page, step_cmds, events >>
vars == << profiles, sample, burst, text_call, total_budget, remaining_budget, actions_taken, alloc, n_calls,
           handed_out, remaining_time,
           element, safe_call, visible_call, repeat_call, click_call, path_call,
           mission, scroll_behavior, page, step_cmds, events >>

(***************************************************************************)
(* Bounds of the model.                                                    *)
(***************************************************************************)
\* the largest standard deviate a Gaussian draw takes, in standard deviations
MaxZ == 3
\* the largest count passed to allocate
MaxCount == 2
\* the number of allocate calls followed on one budget
MaxCalls == 2
\* the number of fields in which an element snapshot differs from a plain,
\* visible element
MaxDeviations == 2
\* the largest number of links a page holds under one selector
MaxLinks == 2
\* the largest number of elements hovered in one scroll pause
MaxHovers == 2
\* the largest count of a burst: a first, an interior and a last draw
MaxBurst == 3

Max(a, b) == IF a >= b THEN a ELSE b
Min(a, b) == IF a <= b THEN a ELSE b

RECURSIVE SeqSum(_)
SeqSum(s) == IF s = << >> THEN 0 ELSE Head(s) + SeqSum(Tail(s))

(***************************************************************************)
(* temporal_entropy.py                                                     *)
(***************************************************************************)
ActivityType ==
    { "reading_word", "reading_sentence", "reading_paragraph", "thinking",
      "typing_char", "typing_word", "mouse_move", "click_delay", "page_load",
      "form_fill", "decision", "scroll_pause" }

TimingProfile(m, s, lo, hi) ==
    [ mean |-> m, std_dev |-> s, min_value |-> lo, max_value |-> hi ]

\* the table of the class with one profile whose floor is above its mean (a
\* mutation of PROFILES)
PROFILES_floor_above_mean ==
    [ a \in ActivityType |->
        IF a = "scroll_pause" THEN TimingProfile(1200, 400, 1300, 2500)
        ELSE TimingProfile(1500, 500, 500, 3000) ]

\* TemporalEntropy.PROFILES, in ms
PROFILES ==
    [ a \in ActivityType |->
        CASE a = "reading_word"      -> TimingProfile(240, 80, 100, 500)
          [] a = "reading_sentence"  -> TimingProfile(2500, 800, 1000, 5000)
          [] a = "reading_paragraph" -> TimingProfile(8000, 2500, 3000, 15000)
          [] a = "thinking"          -> TimingProfile(1500, 500, 500, 3000)
          [] a = "decision"          -> TimingProfile(2500, 1000, 800, 5000)
          [] a = "typing_char"       -> TimingProfile(150, 50, 80, 300)
          [] a = "typing_word"       -> TimingProfile(750, 250, 300, 1500)
          [] a = "mouse_move"        -> TimingProfile(500, 150, 200, 1000)
          [] a = "click_delay"       -> TimingProfile(150, 50, 50, 400)
          [] a = "page_load"         -> TimingProfile(2000, 500, 1000, 4000)
          [] a = "form_fill"         -> TimingProfile(1500, 500, 500, 3000)
          [] a = "scroll_pause"      -> TimingProfile(1200, 400, 300, 2500) ]

\* a rational multiplier applied to an integer quantity
Scaled(x, r) == (x * r[1]) \div r[2]

One == << 1, 1 >>

\* the standard deviates of the draws: the extremes, and the values around the mean
ZDraws == { -MaxZ, -1, 0, 1, MaxZ }

\* random.gauss(mu, sigma) for the standard deviate z
gauss(mu, sigma, z) == mu + z * sigma

\* the clamp of generate_delay without its ceiling (a mutation of clamp)
clamp_no_ceiling(profile, delay) == Max(profile.min_value, delay)

\* delay = max(profile.min_value, min(profile.max_value, delay))
clamp(profile, delay) ==
    Max(profile.min_value, Min(profile.max_value, delay))

\* TemporalEntropy.generate_delay(activity, multiplier, randomness_factor),
\* z the deviate of its Gaussian draw
generate_delay(activity, multiplier, randomness_factor, z) ==
    LET profile == profiles[activity]
        delay   == gauss(Scaled(profile.mean, multiplier),
                         Scaled(profile.std_dev, randomness_factor), z)
    IN  clamp(profile, delay)

\* the multipliers a caller passes: negative, zero, a fraction, one, above one
Multipliers == { << -1, 1 >>, << 0, 1 >>, << 1, 2 >>, << 1, 1 >>, << 3, 2 >>, << 20, 1 >> }

NoBurst == [ activity |-> "none", count |-> 0, burst_randomness |-> One,
             us |-> << >>, zs |-> << >>, called |-> FALSE,
             multipliers |-> << >>, delays |-> << >> ]

NoSample == [ activity |-> "none", multiplier |-> One, randomness_factor |-> One,
              z |-> 0, called |-> FALSE, delay |-> 0 ]

\* the class is loaded with its table, and no call of generate_delay is under way
DelayIdle == profiles = PROFILES /\ sample = NoSample /\ burst = NoBurst

\* the arguments of a call of generate_delay, and the deviate its draw will take
DelayInit ==
    \E a \in ActivityType, m \in Multipliers, rf \in Multipliers, z \in ZDraws :
        /\ profiles = PROFILES
        /\ burst = NoBurst
        /\ sample = [ activity |-> a, multiplier |-> m, randomness_factor |-> rf,
                      z |-> z, called |-> FALSE, delay |-> 0 ]

\* one call of TemporalEntropy.generate_delay
GenerateDelay ==
    /\ ~sample.called
    /\ sample' = [ sample EXCEPT
                     !.called = TRUE,
                     !.delay = generate_delay(sample.activity, sample.multiplier,
                                              sample.randomness_factor, sample.z) ]
    /\ UNCHANGED << profiles, burst >>
    /\ UNCHANGED << budgetVars, classVars, clickVars, pathVars, sessVars, textVars >>

\* the positions of a draw of random.uniform within its range, in hundredths
UDraws == { 0, 50, 100 }

\* random.uniform(lo, hi) for the position u, lo and hi in hundredths
uniform(lo, hi, u) == << lo + ((hi - lo) * u) \div 100, 100 >>

\* the multiplier of burst_activity with the range of the first draw for
\* the first draw only (a mutation of burst_multiplier)
burst_multiplier_first_only(i, count, u) ==
    IF i = 0 THEN uniform(120, 150, u) ELSE uniform(80, 120, u)

\* the multiplier burst_activity draws for index i of range(count)
burst_multiplier(i, count, u) ==
    IF i = 0 \/ i = count - 1 THEN uniform(120, 150, u) ELSE uniform(80, 120, u)

\* the burst_randomness passed: the default, and one
BurstRandomness == { << 1, 2 >>, One }

\* the arguments of a call of burst_activity, and the positions and deviates
\* its draws will take
BurstInit ==
    /\ profiles = PROFILES
    /\ sample = NoSample
    /\ \E a \in ActivityType, count \in 0..MaxBurst, rf \in BurstRandomness :
        \E us \in [1..count -> UDraws], zs \in [1..count -> ZDraws] :
            burst = [ NoBurst EXCEPT !.activity = a, !.count = count,
                                     !.burst_randomness = rf, !.us = us, !.zs = zs ]

\* one call of TemporalEntropy.burst_activity(activity, count, burst_randomness)
BurstActivity ==
    /\ burst.activity # "none"
    /\ ~burst.called
    /\ LET multipliers == [ i \in 1..burst.count |->
                              burst_multiplier(i - 1, burst.count, burst.us[i]) ]
       IN  burst' = [ burst EXCEPT
                        !.called = TRUE,
                        !.multipliers = multipliers,
                        !.delays = [ i \in 1..burst.count |->
                                       generate_delay(burst.activity, multipliers[i],
                                                      burst.burst_randomness,
                                                      burst.zs[i]) ] ]
    /\ UNCHANGED << profiles, sample >>
    /\ UNCHANGED << budgetVars, classVars, clickVars, pathVars, sessVars, textVars >>

(***************************************************************************)
(* temporal_entropy.py: generate_reading_time and generate_typing_time     *)
(*                                                                         *)
(* Times are in ms.  A text is a sequence of characters; an outcome is the *)
(* value returned, or the exception raised.                                *)
(***************************************************************************)
\* the texts passed: empty, blank, one word, two words
Texts == { << >>, << " " >>, << "o", "k" >>, << "a", " ", " ", "b", "c" >> }

\* the words per minute passed: none, the defaults of the two functions
Wpms == { 0, 40, 250 }

\* len(text.split())
word_count(text) ==
    Cardinality({ i \in 1..Len(text) :
                    text[i] # " " /\ (i = 1 \/ text[i - 1] = " ") })

Returned(value) == [ raised |-> "", value |-> value ]
Raised(exception) == [ raised |-> exception, value |-> 0 ]

\* TemporalEntropy.generate_reading_time(text, wpm), z the deviate of its draw
generate_reading_time(text, wpm, z) ==
    IF word_count(text) = 0 THEN Returned(0)
    ELSE IF wpm = 0 THEN Raised("ZeroDivisionError")
    ELSE LET base_time == (word_count(text) * 60000) \div wpm
             variance == (base_time * 20) \div 100
             reading_time == gauss(base_time, variance, z)
             min_time == word_count(text) * 150
         IN  Returned(Max(min_time, reading_time))

\* TemporalEntropy.generate_typing_time(text, wpm), z the deviate of its draw
generate_typing_time(text, wpm, z) ==
    IF Len(text) = 0 THEN Returned(0)
    ELSE IF wpm = 0 THEN Raised("ZeroDivisionError")
    ELSE LET base_time == (Len(text) * 12000) \div wpm
             variance == (base_time * 25) \div 100
             typing_time == gauss(base_time, variance, z)
             min_time == Len(text) * 80
         IN  Returned(Max(min_time, typing_time))

IdleText == [ fn |-> "none", text |-> << >>, wpm |-> 0, z |-> 0, called |-> FALSE,
              outcome |-> Returned(0) ]

\* no call of the two functions is under way
TextIdle == text_call = IdleText

\* the function called, its arguments and the deviate its draw will take
TextInit ==
    \E fn \in { "generate_reading_time", "generate_typing_time" },
       text \in Texts, wpm \in Wpms, z \in ZDraws :
        text_call = [ IdleText EXCEPT !.fn = fn, !.text = text, !.wpm = wpm, !.z = z ]

\* one call of TemporalEntropy.generate_reading_time
GenerateReadingTime ==
    /\ text_call.fn = "generate_reading_time"
    /\ ~text_call.called
    /\ text_call' =
          [ text_call EXCEPT
              !.called = TRUE,
              !.outcome = generate_reading_time(text_call.text, text_call.wpm,
                                                text_call.z) ]
    /\ UNCHANGED << delayVars, budgetVars, classVars, clickVars, pathVars, sessVars >>

\* one call of TemporalEntropy.generate_typing_time
GenerateTypingTime ==
    /\ text_call.fn = "generate_typing_time"
    /\ ~text_call.called
    /\ text_call' =
          [ text_call EXCEPT
              !.called = TRUE,
              !.outcome = generate_typing_time(text_call.text, text_call.wpm,
                                               text_call.z) ]
    /\ UNCHANGED << delayVars, budgetVars, classVars, clickVars, pathVars, sessVars >>

(***************************************************************************)
(* TimingBudget                                                            *)
(***************************************************************************)
\* the budgets a session is created with (positive)
Budgets == { 1000, 5000, 60000 }

NoAlloc == [ activity |-> "none", count |-> 0, pre_remaining |-> 0,
             scale |-> One, multipliers |-> << >>, delays |-> << >> ]

\* no call of get_remaining_time yet
NoRead == [ called |-> FALSE, remaining |-> 0, value |-> 0 ]

\* TimingBudget.__init__(total_budget_seconds)
BudgetInit ==
    /\ total_budget \in Budgets
    /\ remaining_budget = total_budget
    /\ actions_taken = 0
    /\ alloc = NoAlloc
    /\ n_calls = 0
    /\ handed_out = 0
    /\ remaining_time = NoRead

BudgetIdle ==
    /\ total_budget = 0
    /\ remaining_budget = 0
    /\ actions_taken = 0
    /\ alloc = NoAlloc
    /\ n_calls = 0
    /\ handed_out = 0
    /\ remaining_time = NoRead

\* the list of an exhausted budget left empty (a mutation of zeros)
zeros_none(count) == << >>

\* [0.0] * count
zeros(count) == [ i \in 1..count |-> 0 ]

\* the scale of allocate left at one (a mutation of allocate_scale)
allocate_scale_one(profile, count, remaining) == One

\* scale of allocate: remaining_budget / ideal_time when the budget is tight
allocate_scale(profile, count, remaining) ==
    LET ideal_time == profile.mean * count
    IN  IF ideal_time > remaining THEN << remaining, ideal_time >> ELSE One

\* allocate without its test of an exhausted budget (a mutation of Allocate)
Allocate_unguarded ==
    /\ n_calls < MaxCalls
    /\ \E a \in ActivityType, count \in 0..MaxCount :
        \E zs \in [1..count -> ZDraws] :
          LET scale  == allocate_scale(profiles[a], count, remaining_budget)
              delays == [ i \in 1..count |-> generate_delay(a, scale, One, zs[i]) ]
          IN  /\ alloc' = [ activity |-> a, count |-> count,
                            pre_remaining |-> remaining_budget, scale |-> scale,
                            multipliers |-> [ i \in 1..count |-> scale ],
                            delays |-> delays ]
              /\ handed_out' = handed_out + SeqSum(delays)
              /\ remaining_budget' = remaining_budget - SeqSum(delays)
              /\ actions_taken' = actions_taken + count
              /\ UNCHANGED total_budget
    /\ n_calls' = n_calls + 1
    /\ UNCHANGED remaining_time
    /\ UNCHANGED << delayVars, classVars, clickVars, pathVars, sessVars, textVars >>

\* one call of TimingBudget.allocate(activity, count); zs the deviates of its draws
Allocate ==
    /\ n_calls < MaxCalls
    /\ \E a \in ActivityType, count \in 0..MaxCount :
        \E zs \in [1..count -> ZDraws] :
          IF remaining_budget <= 0
          THEN /\ alloc' = [ activity |-> a, count |-> count,
                             pre_remaining |-> remaining_budget, scale |-> One,
                             multipliers |-> << >>,
                             delays |-> zeros(count) ]
               /\ UNCHANGED << total_budget, remaining_budget, actions_taken, handed_out >>
          ELSE LET scale  == allocate_scale(profiles[a], count, remaining_budget)
                   delays == [ i \in 1..count |-> generate_delay(a, scale, One, zs[i]) ]
               IN  /\ alloc' = [ activity |-> a, count |-> count,
                                 pre_remaining |-> remaining_budget, scale |-> scale,
                                 multipliers |-> [ i \in 1..count |-> scale ],
                                 delays |-> delays ]
                   /\ handed_out' = handed_out + SeqSum(delays)
                   /\ remaining_budget' = remaining_budget - SeqSum(delays)
                   /\ actions_taken' = actions_taken + count
                   /\ UNCHANGED total_budget
    /\ n_calls' = n_calls + 1
    /\ UNCHANGED remaining_time
    /\ UNCHANGED << delayVars, classVars, clickVars, pathVars, sessVars, textVars >>

\* get_remaining_time returning the stored field as it is (a mutation of
\* get_remaining_time)
get_remaining_time_stored(remaining) == remaining

\* TimingBudget.get_remaining_time(): max(0.0, self.remaining_budget)
get_remaining_time(remaining) == Max(0, remaining)

\* one call of TimingBudget.get_remaining_time
GetRemainingTime ==
    /\ total_budget > 0
    /\ remaining_time' = [ called |-> TRUE, remaining |-> remaining_budget,
                           value |-> get_remaining_time(remaining_budget) ]
    /\ UNCHANGED << total_budget, remaining_budget, actions_taken, alloc, n_calls,
                    handed_out >>
    /\ UNCHANGED << delayVars, classVars, clickVars, pathVars, sessVars, textVars >>

(***************************************************************************)
(* reading_mimicry.py: HoneypotDetector                                    *)
(*                                                                         *)
(* An element snapshot holds what the two scripts read: the computed style *)
(* (texts), the bounding rectangle (pixels), className and id.  A style    *)
(* text is "auto"/empty or a number text such as "-50.5px", held as its    *)
(* sign, integer digits and first decimal.  A string is a sequence of      *)
(* characters.                                                             *)
(***************************************************************************)
\* the viewport of the browser context
innerWidth == 1920
innerHeight == 1080

NumText(neg, whole, frac) == [ kind |-> "num", neg |-> neg, whole |-> whole, frac |-> frac ]
AutoText == [ kind |-> "auto", neg |-> FALSE, whole |-> 0, frac |-> 0 ]

\* a JavaScript number: NaN, or a value
NaN == [ nan |-> TRUE, v |-> 0 ]
Num(v) == [ nan |-> FALSE, v |-> v ]

\* a parseInt that reads a text that is no number as -1 (a mutation of
\* parseInt)
parseInt_unparsed_negative(text) ==
    IF text.kind = "num"
    THEN Num(IF text.neg THEN 0 - text.whole ELSE text.whole)
    ELSE Num(-1)

\* parseInt(text): the sign and the integer digits; what follows them is dropped
parseInt(text) ==
    IF text.kind = "num"
    THEN Num(IF text.neg THEN 0 - text.whole ELSE text.whole)
    ELSE NaN

\* parseFloat(text), in tenths
parseFloat(text) ==
    IF text.kind = "num"
    THEN Num(IF text.neg THEN 0 - (text.whole * 10 + text.frac)
                         ELSE text.whole * 10 + text.frac)
    ELSE NaN

\* comparisons of JavaScript numbers: every comparison with NaN is false
JsLt(a, b) == ~a.nan /\ ~b.nan /\ a.v < b.v
JsGt(a, b) == ~a.nan /\ ~b.nan /\ a.v > b.v
JsEq(a, b) == ~a.nan /\ ~b.nan /\ a.v = b.v
\* x || 0
JsOrZero(a) == IF a.nan \/ a.v = 0 THEN 0 ELSE a.v

\* characters: the lower-case form of the capitals the model's strings use
ToLowerChar(c) ==
    CASE c = "H" -> "h" [] c = "O" -> "o" [] c = "N" -> "n" [] c = "E" -> "e"
      [] c = "Y" -> "y" [] c = "P" -> "p" [] c = "T" -> "t" [] c = "R" -> "r"
      [] c = "A" -> "a" [] c = "B" -> "b" [] c = "I" -> "i" [] c = "D" -> "d"
      [] OTHER -> c
ToLower(str) == [ i \in 1..Len(str) |-> ToLowerChar(str[i]) ]

\* word occurs in str
Contains(str, word) ==
    \E i \in 1..(Len(str) - Len(word) + 1) : SubSeq(str, i, i + Len(word) - 1) = word

\* the alternatives of /hidden|trap|honeypot|bot-trap/i
TrapLexicon ==
    { << "h", "i", "d", "d", "e", "n" >>, << "t", "r", "a", "p" >>,
      << "h", "o", "n", "e", "y", "p", "o", "t" >>,
      << "b", "o", "t", "-", "t", "r", "a", "p" >> }

\* str.match(/hidden|trap|honeypot|bot-trap/i) !== null
MatchesLexicon(str) == \E w \in TrapLexicon : Contains(ToLower(str), w)

\* an SVG element's className is an object, not a string: .match is undefined
NotAString == << "[object SVGAnimatedString]" >>

\* a plain visible element: the block of the spec's scenario
BaseSnapshot ==
    [ display |-> "block", visibility |-> "visible", opacity |-> NumText(FALSE, 1, 0),
      zIndex |-> NumText(FALSE, 0, 0), position |-> "static",
      left |-> AutoText, top |-> AutoText,
      rect_left |-> 10, rect_top |-> 10, rect_width |-> 100, rect_height |-> 40,
      className |-> << "c", "a", "r", "d" >>, id |-> << >> ]

\* the values a field takes besides the base one
FieldValues ==
    [ display    |-> { "none" },
      visibility |-> { "hidden" },
      opacity    |-> { NumText(FALSE, 0, 0), NumText(FALSE, 0, 5), AutoText },
      zIndex     |-> { AutoText, NumText(TRUE, 1, 0), NumText(FALSE, 5, 0) },
      position   |-> { "fixed" },
      left       |-> { NumText(TRUE, 50, 0), NumText(TRUE, 50, 5), NumText(TRUE, 51, 0) },
      top        |-> { NumText(TRUE, 50, 5), NumText(TRUE, 60, 0) },
      rect_left  |-> { -101, -100, 1950 },
      rect_top   |-> { -101, -100, -40, 1080, 2000 },
      rect_width |-> { 0, 1, 2 },
      rect_height |-> { 0, 1 },
      className  |-> { << >>, << "T", "r", "a", "p" >>,
                       << "a", "d", "-", "H", "I", "D", "D", "E", "N" >>, NotAString },
      id         |-> { << "h", "o", "n", "e", "y", "P", "o", "t", "1" >>,
                       << "b", "o", "t" >> } ]

Deviate(snaps) ==
    snaps \cup UNION { { [ sn EXCEPT ![f] = v ] : sn \in snaps, v \in FieldValues[f] } :
                        f \in DOMAIN FieldValues }

RECURSIVE Deviations(_)
Deviations(k) == IF k = 0 THEN { BaseSnapshot } ELSE Deviate(Deviations(k - 1))

\* the snapshots of the model: the base one changed in at most MaxDeviations fields
Snapshots == Deviations(MaxDeviations)

\* no element matches the selector
NoElement == [ present |-> FALSE, snap |-> BaseSnapshot ]
Elements == { NoElement } \cup { [ present |-> TRUE, snap |-> sn ] : sn \in Snapshots }

\* JS_HONEYPOT_DETECTION: honeypotIndicators
honeypotIndicators(sn) ==
    [ displayNone      |-> sn.display = "none",
      visibilityHidden |-> sn.visibility = "hidden",
      opacityZero      |-> JsEq(parseFloat(sn.opacity), Num(0)),
      offScreenLeft    |-> sn.rect_left < -100,
      offScreenTop     |-> sn.rect_top < -100,
      offScreenRight   |-> sn.rect_left + sn.rect_width > innerWidth + 100,
      negativeZIndex   |-> JsLt(parseInt(sn.zIndex), Num(0)),
      zeroWidth        |-> sn.rect_width = 0,
      zeroHeight       |-> sn.rect_height = 0,
      tinyElement      |-> sn.rect_width < 2 /\ sn.rect_height < 2,
      suspiciousClass  |-> MatchesLexicon(sn.className),
      suspiciousId     |-> MatchesLexicon(sn.id),
      fixedNegative    |-> /\ sn.position = "fixed"
                           /\ \/ JsLt(parseInt(sn.left), Num(-50))
                              \/ JsLt(parseInt(sn.top), Num(-50)) ]

\* the script throws when className has no match method
ScriptThrows(sn) == sn.className = NotAString

\* JS_HONEYPOT_DETECTION: Object.values(honeypotIndicators).some(v => v === true)
isHoneypot(sn) ==
    \E k \in DOMAIN honeypotIndicators(sn) : honeypotIndicators(sn)[k]

\* JS_VISIBILITY_CHECK: checks
visibilityChecks(sn) ==
    [ display    |-> sn.display # "none",
      visibility |-> sn.visibility # "hidden",
      opacity    |-> JsGt(parseFloat(sn.opacity), Num(0)),
      zIndex     |-> JsOrZero(parseInt(sn.zIndex)),
      width      |-> sn.rect_width > 0,
      height     |-> sn.rect_height > 0,
      inViewport |-> sn.rect_top < innerHeight /\ sn.rect_top + sn.rect_height > 0 ]

\* is_element_visible: all([...]) over the checks it reads
all_checks(checks) ==
    /\ checks.display
    /\ checks.visibility
    /\ checks.opacity
    /\ checks.width
    /\ checks.height
    /\ checks.zIndex >= 0

\* what page.query_selector does: a handle, None, or an exception
QueryOutcomes(el) == (IF el.present THEN { "handle" } ELSE { "none" }) \cup { "raise" }
\* what page.evaluate does besides running the script: a transport failure
EvalOutcomes == { "ok", "raise" }

\* the indicators of a details dict that has none (an error dict)
NoIndicators == [ k \in DOMAIN honeypotIndicators(BaseSnapshot) |-> FALSE ]

NoDetails == [ isHoneypot |-> FALSE, indicators |-> NoIndicators, error |-> "" ]

\* is_element_safe without its handler of exceptions (a mutation)
is_element_safe_no_except(el, q, ev) ==
    IF q = "raise" THEN [ raised |-> TRUE, is_safe |-> FALSE, details |-> NoDetails ]
    ELSE IF q = "none"
    THEN [ raised |-> FALSE, is_safe |-> FALSE,
           details |-> [ isHoneypot |-> FALSE, indicators |-> NoIndicators,
                         error |-> "Element not found" ] ]
    ELSE IF ev = "raise" \/ ScriptThrows(el.snap)
    THEN [ raised |-> TRUE, is_safe |-> FALSE, details |-> NoDetails ]
    ELSE [ raised |-> FALSE, is_safe |-> ~isHoneypot(el.snap),
           details |-> [ isHoneypot |-> isHoneypot(el.snap),
                         indicators |-> honeypotIndicators(el.snap), error |-> "" ] ]

\* a classifier that reports an element it has classified before as a
\* honeypot (a mutation of is_element_safe)
is_element_safe_once(el, q, ev) ==
    IF safe_call.called /\ q = "handle" /\ ev = "ok"
    THEN [ raised |-> FALSE, is_safe |-> FALSE,
           details |-> [ isHoneypot |-> TRUE,
                         indicators |-> [ NoIndicators EXCEPT !.suspiciousId = TRUE ],
                         error |-> "" ] ]
    ELSE is_element_safe_no_except(el, q, ev)

\* HoneypotDetector.is_element_safe(page, selector): q and ev are what the
\* query and the evaluation do
is_element_safe(el, q, ev) ==
    IF q = "raise" \/ (q = "handle" /\ (ev = "raise" \/ ScriptThrows(el.snap)))
    THEN [ raised |-> FALSE, is_safe |-> FALSE,
           details |-> [ isHoneypot |-> FALSE, indicators |-> NoIndicators,
                         error |-> "exception" ] ]
    ELSE IF q = "none"
    THEN [ raised |-> FALSE, is_safe |-> FALSE,
           details |-> [ isHoneypot |-> FALSE, indicators |-> NoIndicators,
                         error |-> "Element not found" ] ]
    ELSE [ raised |-> FALSE, is_safe |-> ~isHoneypot(el.snap),
           details |-> [ isHoneypot |-> isHoneypot(el.snap),
                         indicators |-> honeypotIndicators(el.snap), error |-> "" ] ]

\* HoneypotDetector.is_element_visible(page, selector)
is_element_visible(el, q, ev) ==
    IF q = "raise" \/ (q = "handle" /\ ev = "raise")
    THEN [ raised |-> FALSE, is_visible |-> FALSE, error |-> "exception" ]
    ELSE IF q = "none"
    THEN [ raised |-> FALSE, is_visible |-> FALSE, error |-> "Element not found" ]
    ELSE [ raised |-> FALSE, is_visible |-> all_checks(visibilityChecks(el.snap)),
           error |-> "" ]

NoCall == [ called |-> FALSE, q |-> "none", ev |-> "ok" ]

\* no call has been repeated
NoRepeat == [ safe |-> NoCall, visible |-> NoCall ]

ClassInit ==
    /\ element \in Elements
    /\ safe_call = NoCall
    /\ visible_call = NoCall
    /\ repeat_call = NoRepeat

ClassIdle ==
    /\ element = NoElement
    /\ safe_call = NoCall
    /\ visible_call = NoCall
    /\ repeat_call = NoRepeat

\* one call of HoneypotDetector.is_element_safe
IsElementSafe ==
    /\ ~safe_call.called
    /\ \E q \in QueryOutcomes(element), ev \in EvalOutcomes :
          safe_call' = [ called |-> TRUE, q |-> q, ev |-> ev,
                         result |-> is_element_safe(element, q, ev) ]
    /\ UNCHANGED << element, visible_call, repeat_call, delayVars, budgetVars, clickVars, pathVars, sessVars, textVars >>

\* one call of HoneypotDetector.is_element_visible
IsElementVisible ==
    /\ ~visible_call.called
    /\ \E q \in QueryOutcomes(element), ev \in EvalOutcomes :
          visible_call' = [ called |-> TRUE, q |-> q, ev |-> ev,
                            result |-> is_element_visible(element, q, ev) ]
    /\ UNCHANGED << element, safe_call, repeat_call, delayVars, budgetVars, clickVars, pathVars, sessVars, textVars >>

\* a second call of HoneypotDetector.is_element_safe on the same selector
IsElementSafeAgain ==
    /\ safe_call.called
    /\ ~repeat_call.safe.called
    /\ \E q \in QueryOutcomes(element), ev \in EvalOutcomes :
          repeat_call' =
              [ repeat_call EXCEPT
                  !.safe = [ called |-> TRUE, q |-> q, ev |-> ev,
                             result |-> is_element_safe(element, q, ev) ] ]
    /\ UNCHANGED << element, safe_call, visible_call, delayVars, budgetVars, clickVars,
                    pathVars, sessVars, textVars >>

\* a second call of HoneypotDetector.is_element_visible on the same selector
IsElementVisibleAgain ==
    /\ visible_call.called
    /\ ~repeat_call.visible.called
    /\ \E q \in QueryOutcomes(element), ev \in EvalOutcomes :
          repeat_call' =
              [ repeat_call EXCEPT
                  !.visible = [ called |-> TRUE, q |-> q, ev |-> ev,
                                result |-> is_element_visible(element, q, ev) ] ]
    /\ UNCHANGED << element, safe_call, visible_call, delayVars, budgetVars, clickVars,
                    pathVars, sessVars, textVars >>

(***************************************************************************)
(* reading_mimicry.py: NavigationBehavior.safe_click                       *)
(*                                                                         *)
(* The call is followed from one await to the next.  Every await on the    *)
(* page may raise; the except clause of safe_click turns that into the     *)
(* return value False.  cmds lists the commands issued to the page, each   *)
(* with whether it succeeded.                                              *)
(***************************************************************************)
\* a command issued to the page: arg is the duration of a wait, in ms
Cmd(op, arg, ok) == [ op |-> op, arg |-> arg, ok |-> ok ]

\* int(TemporalEntropy.generate_delay(activity) * 1000)
wait_ms(activity, z) == generate_delay(activity, One, One, z)

\* what a later page.query_selector does: the element may have gone meanwhile
LaterQueryOutcomes(el) == QueryOutcomes(el) \cup { "none" }

IdleClick == [ pc |-> "idle", check_honeypot |-> TRUE, safe_verdict |-> "unset",
               visible_verdict |-> "unset", cmds |-> << >>, returned |-> "unset" ]

ClickIdle == click_call = IdleClick

\* safe_click(selector, check_honeypot) is called
ClickInit ==
    \E chk \in BOOLEAN :
        click_call = [ IdleClick EXCEPT !.pc = "check", !.check_honeypot = chk ]

\* return value of safe_click
Return(call, value) == [ call EXCEPT !.pc = "done", !.returned = value ]

\* the honeypot gate left out (a mutation of honeypot_gate)
honeypot_gate_open(call, is_safe) ==
    [ call EXCEPT !.pc = "visible",
                  !.safe_verdict = IF is_safe THEN "safe" ELSE "honeypot" ]

\* if not is_safe: return False
honeypot_gate(call, is_safe) ==
    IF ~is_safe
    THEN Return([ call EXCEPT !.safe_verdict = "honeypot" ], "False")
    ELSE [ call EXCEPT !.pc = "visible", !.safe_verdict = "safe" ]

\* if not is_visible: return False
visibility_gate(call, is_visible) ==
    IF ~is_visible
    THEN Return([ call EXCEPT !.visible_verdict = "hidden" ], "False")
    ELSE [ call EXCEPT !.pc = "scroll", !.visible_verdict = "visible" ]

\* safe_click: the honeypot check
SafeClickClassify ==
    /\ click_call.pc = "check"
    /\ IF click_call.check_honeypot
       THEN \E q \in QueryOutcomes(element), ev \in EvalOutcomes :
              click_call' =
                  honeypot_gate(click_call, is_element_safe(element, q, ev).is_safe)
       ELSE click_call' = [ click_call EXCEPT !.pc = "visible",
                                              !.safe_verdict = "skipped" ]
    /\ UNCHANGED << delayVars, budgetVars, classVars, pathVars, sessVars, textVars >>

\* safe_click: the visibility check
SafeClickVisibility ==
    /\ click_call.pc = "visible"
    /\ \E q \in LaterQueryOutcomes(element), ev \in EvalOutcomes :
          click_call' =
              visibility_gate(click_call, is_element_visible(element, q, ev).is_visible)
    /\ UNCHANGED << delayVars, budgetVars, classVars, pathVars, sessVars, textVars >>

\* safe_click: scroll the element into view, wait for the scroll to complete
SafeClickScroll ==
    /\ click_call.pc = "scroll"
    /\ \E q \in LaterQueryOutcomes(element) :
          \/ /\ q = "raise"
             /\ click_call' = Return(click_call, "False")
          \/ /\ q = "none"
             /\ click_call' = [ click_call EXCEPT !.pc = "decide" ]
          \/ /\ q = "handle"
             /\ \E z \in ZDraws, fail \in { "none", "scroll", "wait" } :
                  LET scroll == Cmd("scroll_into_view", 0, fail # "scroll")
                      wait   == Cmd("wait", wait_ms("scroll_pause", z), fail # "wait")
                  IN  click_call' =
                        CASE fail = "scroll" ->
                               Return([ click_call EXCEPT !.cmds = @ \o << scroll >> ],
                                      "False")
                          [] fail = "wait" ->
                               Return([ click_call EXCEPT !.cmds = @ \o << scroll, wait >> ],
                                      "False")
                          [] OTHER ->
                               [ click_call EXCEPT !.pc = "decide",
                                                   !.cmds = @ \o << scroll, wait >> ]
    /\ UNCHANGED << delayVars, budgetVars, classVars, pathVars, sessVars, textVars >>

\* safe_click: the pre-click delay
SafeClickDecide ==
    /\ click_call.pc = "decide"
    /\ \E z \in ZDraws, ok \in BOOLEAN :
          LET wait == Cmd("wait", wait_ms("decision", z), ok)
          IN  click_call' =
                IF ok
                THEN [ click_call EXCEPT !.pc = "press", !.cmds = @ \o << wait >> ]
                ELSE Return([ click_call EXCEPT !.cmds = @ \o << wait >> ], "False")
    /\ UNCHANGED << delayVars, budgetVars, classVars, pathVars, sessVars, textVars >>

\* safe_click: page.click(selector)
SafeClickPress ==
    /\ click_call.pc = "press"
    /\ \E ok \in BOOLEAN :
          LET click == Cmd("click", 0, ok)
          IN  click_call' =
                IF ok
                THEN [ click_call EXCEPT !.pc = "load", !.cmds = @ \o << click >> ]
                ELSE Return([ click_call EXCEPT !.cmds = @ \o << click >> ], "False")
    /\ UNCHANGED << delayVars, budgetVars, classVars, pathVars, sessVars, textVars >>

\* safe_click: the post-click delay, and the return
SafeClickLoad ==
    /\ click_call.pc = "load"
    /\ \E z \in ZDraws, ok \in BOOLEAN :
          LET wait == Cmd("wait", wait_ms("page_load", z), ok)
          IN  click_call' =
                Return([ click_call EXCEPT !.cmds = @ \o << wait >> ],
                       IF ok THEN "True" ELSE "False")
    /\ UNCHANGED << delayVars, budgetVars, classVars, pathVars, sessVars, textVars >>

(***************************************************************************)
(* kinematic_mouse.py                                                      *)
(*                                                                         *)
(* Units: a coordinate is a whole number of pixels; a distance and a       *)
(* target width are in tenths of a pixel; a movement time and a timestamp  *)
(* are in hundredths of a millisecond; a uniform draw is in hundredths.    *)
(***************************************************************************)
Point(x, y) == [ x |-> x, y |-> y ]

RECURSIVE SqrtFrom(_, _)
SqrtFrom(n, r) == IF (r + 1) * (r + 1) > n THEN r ELSE SqrtFrom(n, r + 1)

\* floor of the square root, found from a lower estimate
RECURSIVE Isqrt(_)
Isqrt(n) == IF n < 100 THEN SqrtFrom(n, 0) ELSE SqrtFrom(n, 10 * Isqrt(n \div 100))

\* Point.distance_to, in tenths of a pixel
distance_to(a, b) ==
    Isqrt(100 * ((a.x - b.x) * (a.x - b.x) + (a.y - b.y) * (a.y - b.y)))

\* the largest k with d * 2^k <= n  (n >= d > 0)
RECURSIVE IntLog2(_, _)
IntLog2(n, d) == IF 2 * d > n THEN 0 ELSE 1 + IntLog2(n, 2 * d)

RECURSIVE Pow2(_)
Pow2(k) == IF k = 0 THEN 1 ELSE 2 * Pow2(k - 1)

\* the binary digits after the point of log2(m / 2^14), for 2^14 <= m < 2^15
RECURSIVE FracBits(_, _)
FracBits(m, bits) ==
    IF bits = 0 THEN 0
    ELSE LET sq == (m * m) \div 16384
         IN  IF sq >= 32768
             THEN Pow2(bits - 1) + FracBits(sq \div 2, bits - 1)
             ELSE FracBits(sq, bits - 1)

\* math.log2(n / d) in 1024ths, for n >= d > 0
log2(n, d) ==
    LET k == IntLog2(n, d)
    IN  1024 * k + FracBits((n * 16384) \div (d * Pow2(k)), 10)

\* FittsLaw.calculate_movement_time(distance, target_width); randomness is
\* its uniform(0.8, 1.2) draw
calculate_movement_time(distance, target_width, randomness) ==
    LET w == IF target_width <= 0 THEN 10 ELSE target_width
        index_of_difficulty == log2(distance + w, w)
        movement_time == 0 + (15000 * index_of_difficulty) \div 1024
    IN  (movement_time * randomness) \div 100

\* HumanMouseMovement._ease_in_out_cubic(i / n), in thousandths
ease_in_out_cubic(i, n) ==
    IF 2 * i < n
    THEN (4000 * i * i * i) \div (n * n * n)
    ELSE 1000 - (1000 * (2 * n - 2 * i) * (2 * n - 2 * i) * (2 * n - 2 * i))
                    \div (2 * n * n * n)

\* BezierCurve.calculate_point(i / n, p0, p1, p2, p3)
calculate_point(i, n, p0, p1, p2, p3) ==
    LET u   == n - i
        nnn == n * n * n
        B(a, b, c, d) == (u * u * u * a) \div nnn + (3 * u * u * i * b) \div nnn
                         + (3 * u * i * i * c) \div nnn + (i * i * i * d) \div nnn
    IN  Point(B(p0.x, p1.x, p2.x, p3.x), B(p0.y, p1.y, p2.y, p3.y))

\* BezierCurve.generate_control_points(start, end, randomness = 0.3); rnd
\* holds its uniform draws and its choice of side
generate_control_points(start, end, rnd) ==
    LET dx == end.x - start.x
        dy == end.y - start.y
        \* perp * curve_depth = (-dy, dx) * uniform(0.1, 0.3) * 0.3
        off(d, jitter) == (d * rnd.depth * 3 * rnd.side * jitter) \div 100000
    IN  << Point(start.x + (dx * rnd.cp1_ratio) \div 100 + off(0 - dy, rnd.jitter[1]),
                 start.y + (dy * rnd.cp1_ratio) \div 100 + off(dx, rnd.jitter[2])),
           Point(start.x + (dx * rnd.cp2_ratio) \div 100 + off(0 - dy, rnd.jitter[3]),
                 start.y + (dy * rnd.cp2_ratio) \div 100 + off(dx, rnd.jitter[4])) >>

\* MicroTremor.apply_tremor(point, intensity): intensity in tenths of a pixel,
\* zs the standard deviates of its two Gaussian draws
apply_tremor(point, intensity, zs) ==
    Point(point.x + (zs[1] * intensity) \div 10, point.y + (zs[2] * intensity) \div 10)

\* the deviates of the tremor of sample i: none, or a wobble
tremor_draws(pattern, i) ==
    IF pattern = "still" THEN << 0, 0 >>
    ELSE << 4 * ((i % 3) - 1), 4 * (((i + 1) % 3) - 1) >>

min_steps == 10
max_steps == 100

\* num_steps = int(max(min_steps, min(max_steps, distance / 10)))
num_steps(start, end) == Max(min_steps, Min(max_steps, distance_to(start, end) \div 100))

\* HumanMouseMovement._generate_normal_path(start, end, movement_time_ms)
generate_normal_path(start, end, movement_time, rnd) ==
    LET cp == generate_control_points(start, end, rnd)
        n  == num_steps(start, end)
    IN  [ k \in 1..(n + 1) |->
            LET i == k - 1
                timestamp == (movement_time * ease_in_out_cubic(i, n)) \div 1000
                tremor_intensity == IF i > 0 /\ i < n THEN 3 ELSE 1
                point == apply_tremor(calculate_point(i, n, start, cp[1], cp[2], end),
                                      tremor_intensity, tremor_draws(rnd.tremor, i))
            IN  << point.x, point.y, timestamp >> ]

\* the corrective sub-path joined without the offset of its timestamps (a
\* mutation of adjust_timestamps)
adjust_timestamps_none(path2, last_timestamp) == path2

\* path2_adjusted = [(x, y, t + last_timestamp) for x, y, t in path2]
adjust_timestamps(path2, last_timestamp) ==
    [ k \in 1..Len(path2) |-> << path2[k][1], path2[k][2], path2[k][3] + last_timestamp >> ]

\* the overshoot point put on the target (a mutation of overshoot_point)
overshoot_point_on_target(start, end, rnd) == end

\* overshoot_point of _generate_overshoot_path: start + (end - start) *
\* overshoot_ratio, the ratio of uniform(1.05, 1.15) in hundredths
overshoot_point(start, end, rnd) ==
    LET dx == end.x - start.x
        dy == end.y - start.y
    IN  Point(start.x + (dx * rnd.overshoot_ratio) \div 100,
              start.y + (dy * rnd.overshoot_ratio) \div 100)

\* HumanMouseMovement._generate_overshoot_path(start, end, movement_time_ms)
generate_overshoot_path(start, end, movement_time, rnd) ==
    LET path1 == generate_normal_path(start, overshoot_point(start, end, rnd),
                                      (movement_time * 7) \div 10, rnd)
        path2 == generate_normal_path(overshoot_point(start, end, rnd), end,
                                      (movement_time * 3) \div 10, rnd)
        last_timestamp == path1[Len(path1)][3]
    IN  path1 \o Tail(adjust_timestamps(path2, last_timestamp))

\* target_size = max(10, distance * 0.05) when none is given
default_target_size(distance) == Max(100, (distance * 5) \div 100)

\* HumanMouseMovement.generate_path(start, end, target_size); target_size is
\* None unless given_size
generate_path(start, end, given_size, target_size, rnd) ==
    LET distance == distance_to(start, end)
        size == IF ~given_size THEN default_target_size(distance) ELSE target_size
        base_movement_time == calculate_movement_time(distance, size, rnd.fitts)
    IN  IF rnd.should_overshoot
        THEN generate_overshoot_path(start, end, base_movement_time, rnd)
        ELSE generate_normal_path(start, end, base_movement_time, rnd)

\* the random draws of one generate_path call
RandomDraws ==
    [ fitts : { 80, 100, 120 },
      should_overshoot : BOOLEAN,
      overshoot_ratio : { 105, 115 },
      depth : { 10, 30 },
      side : { -1, 1 },
      cp1_ratio : { 30 },
      cp2_ratio : { 70 },
      jitter : { << 50, 100, 75, 60 >> },
      tremor : { "still", "wobble" } ]

\* the points a movement starts from and ends at
Starts == { Point(0, 0), Point(640, 360) }
Ends == { Point(640, 360), Point(700, 380), Point(100, 500), Point(1400, 900) }

\* the target sizes passed, in tenths of a pixel: none, negative, zero, a
\* fraction of a pixel, and sizes of elements
TargetSizes == { -50, 0, 5, 400, 2000 }

\* the call of FittsLaw.calculate_movement_time a generate_path call makes:
\* its arguments, its movement time before the randomness is applied, and
\* the value it returns
NoFitts == [ distance |-> 0, target_width |-> 0, movement_time |-> 0, returned |-> 0 ]

IdlePath == [ called |-> FALSE, start |-> Point(0, 0), end |-> Point(0, 0),
              given_size |-> FALSE, target_size |-> 0, trajectory |-> << >>,
              fitts |-> NoFitts,
                         replayed |-> FALSE, cmds |-> << >> ]

PathIdle == path_call = IdlePath

\* the arguments and the random draws of a generate_path call
PathInit ==
    \E st \in Starts, en \in Ends, rnd \in RandomDraws :
        \/ path_call = [ called |-> FALSE, start |-> st, end |-> en, rnd |-> rnd,
                         given_size |-> FALSE, target_size |-> 0, trajectory |-> << >>,
                         fitts |-> NoFitts,
                         replayed |-> FALSE, cmds |-> << >> ]
        \/ \E ts \in TargetSizes :
              path_call = [ called |-> FALSE, start |-> st, end |-> en, rnd |-> rnd,
                            given_size |-> TRUE, target_size |-> ts,
                            trajectory |-> << >>, fitts |-> NoFitts,
                         replayed |-> FALSE, cmds |-> << >> ]

\* one call of HumanMouseMovement.generate_path
GeneratePath ==
    /\ ~path_call.called
    /\ path_call' =
          [ path_call EXCEPT
              !.called = TRUE,
              !.trajectory =
                  generate_path(path_call.start, path_call.end, path_call.given_size,
                                path_call.target_size, path_call.rnd),
              !.fitts =
                  LET distance == distance_to(path_call.start, path_call.end)
                      size == IF ~path_call.given_size
                              THEN default_target_size(distance)
                              ELSE path_call.target_size
                  IN  [ distance |-> distance, target_width |-> size,
                        movement_time |-> calculate_movement_time(distance, size, 100),
                        returned |-> calculate_movement_time(distance, size,
                                                             path_call.rnd.fitts) ] ]
    /\ UNCHANGED << delayVars, budgetVars, classVars, clickVars, sessVars, textVars >>

\* path.index(tuple): the first position that holds an equal tuple
index(path, tuple) ==
    CHOOSE i \in 1..Len(path) :
        path[i] = tuple /\ \A j \in 1..(i - 1) : path[j] # tuple

\* a command of the replay: a pointer move to (x, y), or a wait of ms
Move(x, y) == [ op |-> "move", x |-> x, y |-> y, ms |-> 0 ]
Wait(ms) == [ op |-> "wait", x |-> 0, y |-> 0, ms |-> ms ]

\* path.index((x, y, timestamp)) + 1, the position of the sample whose
\* timestamp the wait after sample k is taken up to
next_index(path, k) == index(path, path[k]) + 1

\* one iteration of the loop of move_to_element, on sample k: mouse.move, and
\* unless path.index finds the sample at the last position, wait_for_timeout
\* of int(next_timestamp - timestamp); timestamps are in hundredths of a ms
replay_sample(path, k) ==
    LET n == next_index(path, k)
    IN  << Move(path[k][1], path[k][2]) >>
          \o (IF n <= Len(path)
              THEN << Wait((path[n][3] - path[k][3]) \div 100) >>
              ELSE << >>)

\* the loop of move_to_element over the samples lo..hi, in their order (the
\* range is halved to keep the evaluation shallow)
RECURSIVE replay(_, _, _)
replay(path, lo, hi) ==
    IF lo > hi THEN << >>
    ELSE IF lo = hi THEN replay_sample(path, lo)
    ELSE LET mid == (lo + hi) \div 2
         IN  replay(path, lo, mid) \o replay(path, mid + 1, hi)

\* the replay of the trajectory by PlaywrightMouseController.move_to_element,
\* every call on the page succeeding (the bookkeeping of window.mouseX and
\* window.mouseY after each move is not a command of the replay)
Replay ==
    /\ path_call.called
    /\ ~path_call.replayed
    /\ path_call' = [ path_call EXCEPT !.replayed = TRUE,
                                       !.cmds = replay(path_call.trajectory, 1,
                                                       Len(path_call.trajectory)) ]
    /\ UNCHANGED << delayVars, budgetVars, classVars, clickVars, sessVars, textVars >>

(***************************************************************************)
(* infiltrator_complete.py: InfiltratorSession.execute_mission, with the   *)
(* handlers it calls: NavigationBehavior.read_and_explore and              *)
(* ScrollBehavior.burst_scroll (reading_mimicry.py), and                   *)
(* PlaywrightMouseController.human_click (kinematic_mouse.py).             *)
(*                                                                         *)
(* The mission is followed from one handler step to the next.  Every await *)
(* on the page may raise.  step_cmds lists the commands the page accepted  *)
(* in the step under way, events the clicks issued since the mission       *)
(* began.  A wait is listed with the activity its duration is drawn for;   *)
(* the duration is the value of generate_delay.                            *)
(***************************************************************************)
\* the link_selectors of _find_and_click_interesting_link, in order
link_selectors ==
    << "article a", "a.article-link", "a.headline", ".post a", "h2 a", "h3 a",
       "a[href*=article]", "a[href*=post]", "a[href*=blog]" >>

\* the candidates of _random_interaction, in order
interactions == << "_scroll_to_bottom", "_hover_over_images", "_read_comments_section" >>

\* ElementHandle.is_visible() of the host: a non-empty box and no
\* visibility:hidden; opacity, stacking order and position do not count
is_visible(sn) ==
    /\ sn.display # "none"
    /\ sn.visibility # "hidden"
    /\ sn.rect_width > 0
    /\ sn.rect_height > 0

\* ElementHandle.bounding_box() of the host is not None
bounding_box(sn) == sn.display # "none"

\* a link of the page: href is "ok", "#" (an in-page anchor) or "none"
Link(href, sn) == [ href |-> href, snap |-> sn ]
PlainLink == Link("ok", BaseSnapshot)
AnchorLink == Link("#", BaseSnapshot)
UnrenderedLink == Link("ok", [ BaseSnapshot EXCEPT !.display = "none" ])
\* a link the host reports visible and HoneypotDetector reports a honeypot
TrapLink == Link("ok", [ BaseSnapshot EXCEPT !.zIndex = NumText(TRUE, 1, 0) ])
LinkKinds == { PlainLink, AnchorLink, UnrenderedLink, TrapLink }

\* the sequences over S of length n at most
RECURSIVE SeqsUpTo(_, _)
SeqsUpTo(S, n) ==
    IF n = 0 THEN { << >> }
    ELSE LET shorter == SeqsUpTo(S, n - 1)
         IN  shorter \cup { Append(q, x) : q \in shorter, x \in S }

\* what page.query_selector_all answers for each of link_selectors: the
\* pages of the model have links under the first and the last selector
LinksOf(first, last) ==
    [ s \in 1..Len(link_selectors) |->
        IF s = 1 THEN first ELSE IF s = Len(link_selectors) THEN last ELSE << >> ]

\* document.documentElement.scrollHeight - window.innerHeight of the pages
MaxScrollYs == { 0, 1500, 6000 }

\* a page: its number in the session, its scroll state and its links
Page(no, max_scroll_y, links) ==
    [ no |-> no, scrollY |-> 0, max_scroll_y |-> max_scroll_y,
      height |-> innerHeight, links |-> links ]

\* the pages the session is started on
StartPages ==
    { Page(1, m, LinksOf(first, << >>)) :
        m \in MaxScrollYs, first \in SeqsUpTo(LinkKinds, MaxLinks) }

\* the pages a followed link leads to
LandingPages(no) ==
    { Page(no, m, LinksOf(<< >>, last)) :
        m \in MaxScrollYs, last \in { << >>, << PlainLink >> } }

\* the elements the interesting_selectors of _hover_interesting_content
\* match: a heading, a card whose class says trap, an image stacked below
\* the page
interesting_elements ==
    << BaseSnapshot,
       [ BaseSnapshot EXCEPT !.className = << "T", "r", "a", "p" >> ],
       [ BaseSnapshot EXCEPT !.zIndex = NumText(TRUE, 1, 0) ] >>

\* any(x in attr.lower() for x in ['hidden', 'trap', 'honeypot']), for an
\* attribute that is present and not empty
suspicious(attr) ==
    /\ attr # << >>
    /\ \E w \in { << "h", "i", "d", "d", "e", "n" >>, << "t", "r", "a", "p" >>,
                  << "h", "o", "n", "e", "y", "p", "o", "t" >> } :
          Contains(ToLower(attr), w)

\* the elements _hover_interesting_content does not skip
Hoverable ==
    { k \in 1..Len(interesting_elements) :
        /\ is_visible(interesting_elements[k])
        /\ ~suspicious(interesting_elements[k].id)
        /\ ~suspicious(interesting_elements[k].className) }

\* a command the page accepted: arg is the position of a scrollTo, or the
\* element of a hover, or the index among the matches of the selector of the
\* link a command is about (0: no element); activity is the activity of a wait
Step(op, arg, activity) == [ op |-> op, arg |-> arg, activity |-> activity ]

\* the elements one call of _hover_interesting_content hovers, in order: it
\* returns after the first hover whose wait succeeds, and goes on to the
\* next element when the hover or the wait raises
HoverOutcomes ==
    { h \in SeqsUpTo(Hoverable, MaxHovers) :
        \A a, b \in 1..Len(h) : a # b => h[a] # h[b] }

\* the commands of one call of _hover_interesting_content
hover_interesting_content(h, wait_ok) ==
    [ k \in 1..Len(h) |-> Step("hover", h[k], "") ]
      \o (IF h # << >> /\ wait_ok THEN << Step("wait", 0, "THINKING") >> ELSE << >>)

\* burst_scroll without its reading pause (a mutation of reading_pause)
reading_pause_skipped(long) == << >>

\* the reading pause of burst_scroll: in 30% of the cases the longer one
reading_pause(long) ==
    << Step("wait", 0, IF long THEN "READING_PARAGRAPH" ELSE "SCROLL_PAUSE") >>

\* int(a / b) for b > 0: Python's int() rounds toward zero
TruncDiv(a, b) == IF a >= 0 THEN a \div b ELSE -((-a) \div b)

\* random.uniform(0.7, 1.0) and random.uniform(0.6, 1.2), in hundredths
CountFactors == { 70, 100 }
AmountFactors == { 60, 120 }

\* num_scrolls of burst_scroll: the argument, or, when it is None, computed
\* from the viewport; read_and_explore passes max_scrolls, which is 3 in
\* phase 1 and None afterwards
num_scrolls(phase, viewport, u) ==
    IF phase = 1 THEN 3
    ELSE Max(3, TruncDiv(viewport.max_scroll_y * u, viewport.height * 100))

\* hash(str(asyncio.get_event_loop().time()))
Hashes == { -7, 0, 1, 2, 12345 }

\* int(len(interactions) * hash(...) % len(interactions))
interaction_index(h) == (Len(interactions) * h) % Len(interactions)

IdleMission ==
    [ pc |-> "idle", phase |-> 0, phases |-> {}, result |-> "unset",
      sel |-> 0, li |-> 0, links |-> << >>, handles_page |-> 0,
      link_result |-> "unset", interaction |-> "unset", raised |-> "none" ]

SessIdle ==
    /\ mission = IdleMission
    /\ scroll_behavior = [ current_position |-> 0, num_scrolls |-> 0, i |-> 0 ]
    /\ page = Page(0, 0, LinksOf(<< >>, << >>))
    /\ step_cmds = << >>
    /\ events = << >>

\* execute_mission is entered: NavigationBehavior(page) makes a
\* ScrollBehavior whose current_position is 0, and phase 1 begins
SessInit ==
    /\ mission = [ IdleMission EXCEPT !.pc = "orient", !.phase = 1, !.phases = { 1 } ]
    /\ scroll_behavior = [ current_position |-> 0, num_scrolls |-> 0, i |-> 0 ]
    /\ page \in StartPages
    /\ step_cmds = << >>
    /\ events = << >>

\* the handler of a phase has returned: execute_mission goes on to the next
\* phase, and returns True after the last
NextPhase(m) ==
    CASE m.phase = 1 ->
            [ m EXCEPT !.pc = "find_links", !.phase = 2, !.phases = @ \cup { 2 },
                       !.sel = 1, !.li = 1 ]
      [] m.phase = 2 ->
            [ m EXCEPT !.pc = "orient", !.phase = 3, !.phases = @ \cup { 3 },
                       !.sel = 0, !.li = 0, !.links = << >>, !.handles_page = 0 ]
      [] m.phase = 3 ->
            [ m EXCEPT !.pc = "random_interaction", !.phase = 4, !.phases = @ \cup { 4 } ]
      [] OTHER ->
            [ m EXCEPT !.pc = "done", !.result = "True" ]

\* the exception of a call leaves read_and_explore, burst_scroll or an
\* interaction: that of an interaction is caught by _random_interaction,
\* after which execute_mission returns True; any other reaches the except
\* clause of execute_mission, which returns False
Raise(m, call) ==
    IF m.phase = 4
    THEN [ m EXCEPT !.pc = "done", !.result = "True", !.raised = call ]
    ELSE [ m EXCEPT !.pc = "done", !.result = "False", !.raised = call ]

\* read_and_explore up to its call of burst_scroll: the orientation pause
Orient ==
    /\ mission.pc = "orient"
    /\ \E ok \in BOOLEAN :
          IF ok
          THEN /\ step_cmds' = << Step("wait", 0, "THINKING") >>
               /\ mission' = [ mission EXCEPT !.pc = "scroll_init" ]
          ELSE /\ step_cmds' = << >>
               /\ mission' = Raise(mission, "wait_for_timeout")
    /\ UNCHANGED << scroll_behavior, page, events >>
    /\ UNCHANGED << delayVars, budgetVars, classVars, clickVars, pathVars, textVars >>

\* burst_scroll up to its loop: the first poll of the viewport and the
\* number of steps
ScrollInit ==
    /\ mission.pc = "scroll_init"
    /\ \E ok \in BOOLEAN, u \in CountFactors :
          IF ok /\ (mission.phase = 1 \/ page.height # 0)
          THEN /\ step_cmds' = Append(step_cmds, Step("poll", 0, ""))
               /\ scroll_behavior' =
                     [ scroll_behavior EXCEPT
                         !.num_scrolls = num_scrolls(mission.phase, page, u),
                         !.i = 0 ]
               /\ mission' = [ mission EXCEPT !.pc = "scroll_step" ]
          ELSE /\ step_cmds' = IF ok THEN Append(step_cmds, Step("poll", 0, ""))
                                     ELSE step_cmds
               /\ mission' = Raise(mission, IF ok THEN "ZeroDivisionError"
                                                   ELSE "get_viewport_info")
               /\ UNCHANGED scroll_behavior
    /\ UNCHANGED << page, events >>
    /\ UNCHANGED << delayVars, budgetVars, classVars, clickVars, pathVars, textVars >>

\* new_position of burst_scroll without its bound (a mutation of
\* new_position)
new_position_unbounded(current_position, scroll_amount, viewport) ==
    current_position + scroll_amount

\* new_position of burst_scroll: "Don't scroll past the end"
new_position(current_position, scroll_amount, viewport) ==
    Min(current_position + scroll_amount, viewport.max_scroll_y)

\* one iteration of the loop of burst_scroll (reading_behavior is True in
\* every call of the mission): poll, scrollTo, and unless the bottom is
\* reached the pause and, in 40% of the cases, a hover
ScrollStep ==
    /\ mission.pc = "scroll_step"
    /\ \E u \in AmountFactors :
          LET viewport == page
              scroll_amount == (viewport.height * u) \div 100
              position == new_position(scroll_behavior.current_position,
                                       scroll_amount, viewport)
              bottom == position >= viewport.max_scroll_y
              last == scroll_behavior.i + 1 = scroll_behavior.num_scrolls
              scrolled == [ page EXCEPT
                              !.scrollY = Max(0, Min(position, page.max_scroll_y)) ]
              poll == Step("poll", 0, "")
              scrollTo == Step("scrollTo", position, "")
          IN  \/ \* the poll raises
                 /\ step_cmds' = << >>
                 /\ mission' = Raise(mission, "get_viewport_info")
                 /\ UNCHANGED << scroll_behavior, page >>
              \/ \* scrollTo raises
                 /\ step_cmds' = << poll >>
                 /\ mission' = Raise(mission, "scrollTo")
                 /\ UNCHANGED << scroll_behavior, page >>
              \/ \* the bottom is reached: break
                 /\ bottom
                 /\ step_cmds' = << poll, scrollTo >>
                 /\ page' = scrolled
                 /\ scroll_behavior' =
                       [ scroll_behavior EXCEPT !.current_position = position,
                                                !.i = @ + 1 ]
                 /\ mission' = NextPhase(mission)
              \/ \* the wait of the pause raises
                 /\ ~bottom
                 /\ step_cmds' = << poll, scrollTo >>
                 /\ page' = scrolled
                 /\ scroll_behavior' =
                       [ scroll_behavior EXCEPT !.current_position = position ]
                 /\ mission' = Raise(mission, "wait_for_timeout")
              \/ \* the pause, and the hover or none
                 /\ ~bottom
                 /\ \E long \in BOOLEAN, h \in HoverOutcomes, wait_ok \in BOOLEAN :
                       /\ h = << >> => wait_ok
                       /\ step_cmds' =
                             << poll, scrollTo >>
                               \o reading_pause(long)
                               \o hover_interesting_content(h, wait_ok)
                 /\ page' = scrolled
                 /\ scroll_behavior' =
                       [ scroll_behavior EXCEPT !.current_position = position,
                                                !.i = @ + 1 ]
                 /\ mission' = IF last THEN NextPhase(mission) ELSE mission
    /\ UNCHANGED events
    /\ UNCHANGED << delayVars, budgetVars, classVars, clickVars, pathVars, textVars >>

\* _find_and_click_interesting_link at the head of its loop over
\* link_selectors: query_selector_all; an exception, or no match, moves on
\* to the next selector; after the last the handler returns False
FindLinks ==
    /\ mission.pc = "find_links"
    /\ IF mission.sel > Len(link_selectors)
       THEN mission' = NextPhase([ mission EXCEPT !.link_result = "False" ])
       ELSE \E ok \in BOOLEAN :
              IF ok /\ page.links[mission.sel] # << >>
              THEN mission' = [ mission EXCEPT !.pc = "try_link", !.li = 1,
                                               !.links = page.links[mission.sel],
                                               !.handles_page = page.no ]
              ELSE mission' = [ mission EXCEPT !.sel = @ + 1 ]
    /\ step_cmds' = << >>
    /\ UNCHANGED << scroll_behavior, page, events >>
    /\ UNCHANGED << delayVars, budgetVars, classVars, clickVars, pathVars, textVars >>

\* a click issued to the page: el is << page, selector, index >> of the
\* element under the pointer, index 0 standing for no element; classified
\* tells whether a not-honeypot verdict of HoneypotDetector on that element
\* came before the click, planned whether a trajectory to it was planned
Click(el, classified, planned) ==
    [ el |-> el, classified |-> classified, planned |-> planned ]

\* how far an attempt to click gets: "scroll" fails in scroll_into_view,
\* "locate" in move_to_element before the path is planned (query_selector,
\* bounding_box, the read of the pointer position), "move" in the replay of
\* the path, "click" in the wait before the click or in the click, "load"
\* in wait_for_load_state; "none" fails nowhere
ClickStages == { "none", "scroll", "locate", "move", "click", "load" }

\* the commands of an attempt to click link li of a selector that gets as
\* far as stage: scroll_into_view_if_needed on the link, then human_click on
\* the selector, whose first match the path is planned and replayed to, and
\* whose click lands on the element under the pointer
attempt_cmds(li, target, stage) ==
    LET full == << Step("scroll_into_view", li, ""),
                   Step("generate_path", 1, ""),
                   Step("replay", 1, ""),
                   Step("wait", 0, "click-delay"),
                   Step("click", target, ""),
                   Step("wait_for_load_state", 0, "") >>
    IN  CASE stage = "scroll" -> << >>
          [] stage = "locate" -> SubSeq(full, 1, 1)
          [] stage = "move"   -> SubSeq(full, 1, 2)
          [] stage = "click"  -> SubSeq(full, 1, 3)
          [] stage = "load"   -> SubSeq(full, 1, 5)
          [] OTHER            -> full

\* cmds holds command op on element arg before its k-th command
CmdBefore(cmds, op, arg, k) ==
    \E j \in 1..(k - 1) : cmds[j].op = op /\ cmds[j].arg = arg

\* the clicks among the commands of an attempt on selector sel of page no
clicks_of(cmds, no, sel) ==
    LET at == { k \in 1..Len(cmds) : cmds[k].op = "click" }
    IN  IF at = {} THEN << >>
        ELSE LET k == CHOOSE c \in at : TRUE
             IN  << Click(<< no, sel, cmds[k].arg >>,
                          CmdBefore(cmds, "is_element_safe", cmds[k].arg, k),
                          CmdBefore(cmds, "generate_path", cmds[k].arg, k)) >>

\* one iteration of the loop over links[:3]: the checks of href and of
\* is_visible, then the attempt to click
TryLink ==
    /\ mission.pc = "try_link"
    /\ IF mission.li > Min(3, Len(mission.links))
       THEN /\ mission' = [ mission EXCEPT !.pc = "find_links", !.sel = @ + 1 ]
            /\ step_cmds' = << >>
            /\ UNCHANGED << page, events >>
       ELSE IF mission.handles_page # page.no
       THEN \* the handle is of a page that is gone: the outer except
            /\ mission' = [ mission EXCEPT !.pc = "find_links", !.sel = @ + 1 ]
            /\ step_cmds' = << >>
            /\ UNCHANGED << page, events >>
       ELSE LET link == mission.links[mission.li]
                first == page.links[mission.sel][1]
            IN  \/ \* get_attribute, is_visible or inner_text raises
                   /\ mission' = [ mission EXCEPT !.pc = "find_links", !.sel = @ + 1 ]
                   /\ step_cmds' = << >>
                   /\ UNCHANGED << page, events >>
                \/ IF link.href # "ok" \/ ~is_visible(link.snap)
                   THEN /\ mission' = [ mission EXCEPT !.li = @ + 1 ]
                        /\ step_cmds' = << >>
                        /\ UNCHANGED << page, events >>
                   ELSE \E drawn \in ClickStages,
                           target \in IF mission.li = 1 THEN { 1 } ELSE { 0, 1 } :
                          LET stage == IF drawn # "scroll" /\ ~bounding_box(first.snap)
                                       THEN "locate" ELSE drawn
                              cmds == attempt_cmds(mission.li, target, stage)
                              navigates == /\ stage \in { "load", "none" }
                                           /\ target = 1
                                           /\ first.href = "ok"
                          IN  /\ step_cmds' = cmds
                              /\ events' = events \o clicks_of(cmds, page.no, mission.sel)
                              /\ IF navigates
                                 THEN page' \in LandingPages(page.no + 1)
                                 ELSE UNCHANGED page
                              /\ mission' =
                                    IF stage = "none"
                                    THEN NextPhase([ mission EXCEPT !.link_result = "True" ])
                                    ELSE [ mission EXCEPT !.li = @ + 1 ]
    /\ UNCHANGED scroll_behavior
    /\ UNCHANGED << delayVars, budgetVars, classVars, clickVars, pathVars, textVars >>

\* the images _hover_over_images hovers: those is_visible reports visible
hover_over_images ==
    LET shown(k) == IF is_visible(interesting_elements[k])
                    THEN << Step("hover", k, ""), Step("wait", 0, "THINKING") >>
                    ELSE << >>
    IN  shown(1) \o shown(2) \o shown(3)

\* _random_interaction: the choice of the interaction.  _scroll_to_bottom
\* goes on in burst_scroll; the two others are short and taken whole, every
\* exception of theirs being caught here or in their own loops
RandomInteraction ==
    /\ mission.pc = "random_interaction"
    /\ \E hash \in Hashes :
          LET interaction == interactions[interaction_index(hash) + 1]
              chosen == [ mission EXCEPT !.interaction = interaction ]
          IN  CASE interaction = "_scroll_to_bottom" ->
                      /\ mission' = [ chosen EXCEPT !.pc = "scroll_init" ]
                      /\ step_cmds' = << >>
                [] interaction = "_hover_over_images" ->
                      /\ mission' = NextPhase(chosen)
                      /\ step_cmds' \in { << >>, hover_over_images }
                [] OTHER ->
                      /\ mission' = NextPhase(chosen)
                      /\ step_cmds' \in { << >>,
                                          << Step("scroll_into_view", 0, ""),
                                             Step("wait", 0, "READING_PARAGRAPH") >> }
    /\ UNCHANGED << scroll_behavior, page, events >>
    /\ UNCHANGED << delayVars, budgetVars, classVars, clickVars, pathVars, textVars >>

(***************************************************************************)
(* Claims about the temporal entropy model and the timing budget           *)
(***************************************************************************)
\* the Gaussian draw of the call recorded in sample, before the clamp
SampleRawDraw ==
    gauss(Scaled(PROFILES[sample.activity].mean, sample.multiplier),
          Scaled(PROFILES[sample.activity].std_dev, sample.randomness_factor),
          sample.z)

\* C1 (as claimed): after any sequence of allocate calls the stored
\* remaining_budget is never negative.
C1_RemainingNeverNegative == remaining_budget >= 0

\* C2 (as claimed): the delays one allocate call returns sum to at most the
\* remaining budget as it was before the call, give or take one unit of rounding.
C2_SumWithinPreCallRemaining ==
    alloc.activity # "none" => SeqSum(alloc.delays) <= alloc.pre_remaining + 1

\* C11: a call of allocate(activity, count) made with a remaining budget of
\* zero or less returns count zeros and leaves total_budget, remaining_budget
\* and actions_taken as they were.
C11_ExhaustedBudgetFrame ==
    [][ remaining_budget <= 0 =>
          /\ Len(alloc'.delays) = alloc'.count
          /\ \A i \in 1..Len(alloc'.delays) : alloc'.delays[i] = 0
          /\ total_budget' = total_budget
          /\ remaining_budget' = remaining_budget
          /\ actions_taken' = actions_taken ]_vars

\* C11 witness: a call for two delays made on an overdrawn budget has
\* returned two zeros.
C11_Witness ==
    /\ alloc.activity # "none"
    /\ alloc.pre_remaining < 0
    /\ alloc.count = 2
    /\ alloc.delays = << 0, 0 >>
    /\ remaining_budget = alloc.pre_remaining

\* C26: in allocate, made with a remaining budget above zero, when
\* profile.mean * count exceeds the remaining budget one scale =
\* remaining / ideal total, with 0 < scale < 1, is computed before the batch
\* and passed as the mean multiplier to every one of the count samples;
\* when the ideal total fits, the multiplier is exactly 1.
C26_OneScalePerBatch ==
    (alloc.activity # "none" /\ alloc.pre_remaining > 0) =>
        LET ideal == profiles[alloc.activity].mean * alloc.count
        IN  /\ Len(alloc.multipliers) = alloc.count
            /\ \A i \in 1..alloc.count :
                  IF ideal > alloc.pre_remaining
                  THEN /\ alloc.multipliers[i] = << alloc.pre_remaining, ideal >>
                       /\ 0 < alloc.multipliers[i][1]
                       /\ alloc.multipliers[i][1] < alloc.multipliers[i][2]
                  ELSE alloc.multipliers[i] = One

\* C26 witness: a batch of two compressed by a scale below one, none of its
\* delays at the floor of the profile.
C26_Witness ==
    /\ alloc.activity # "none"
    /\ alloc.pre_remaining > 0
    /\ alloc.count = 2
    /\ alloc.scale # One
    /\ \A i \in 1..2 : alloc.delays[i] > profiles[alloc.activity].min_value

\* C28: across any sequence of allocate calls total_budget is never changed,
\* remaining_budget never increases, and total_budget - remaining_budget is
\* the sum of all the delays returned so far; get_remaining_time returns
\* max(0, remaining_budget) and does not modify the budget.
C28_BudgetAccounting ==
    /\ [](/\ total_budget - remaining_budget = handed_out
          /\ remaining_time.called =>
                /\ remaining_time.value >= 0
                /\ remaining_time.value >= remaining_time.remaining
                /\ remaining_time.value \in { 0, remaining_time.remaining })
    /\ [][/\ total_budget' = total_budget
          /\ remaining_budget' <= remaining_budget
          /\ remaining_time' # remaining_time =>
                /\ remaining_time'.remaining = remaining_budget
                /\ UNCHANGED << total_budget, remaining_budget, actions_taken >>]_vars

\* C28 witness: get_remaining_time was called on a budget that allocate had
\* overdrawn, after a call that returned zeros.
C28_Witness ==
    /\ remaining_budget < 0
    /\ remaining_time.called
    /\ remaining_time.remaining = remaining_budget
    /\ remaining_time.value = 0
    /\ alloc.pre_remaining < 0
    /\ alloc.count > 0
    /\ handed_out > total_budget

\* C29: allocate(activity, count) always returns a list of exactly count
\* entries, and actions_taken counts the delays sampled: it grows by count on
\* a call made with a remaining budget above zero and by 0 on a call made
\* with a remaining budget of zero or less.
C29_ActionsTakenCountsSamples ==
    [][ n_calls' = n_calls + 1 =>
          /\ Len(alloc'.delays) = alloc'.count
          /\ actions_taken' = actions_taken
                                + (IF remaining_budget > 0 THEN alloc'.count ELSE 0) ]_vars

\* C29 witness: two calls for two delays each, the second on an overdrawn
\* budget: four delays were handed out and actions_taken is two.
C29_Witness ==
    /\ n_calls = 2
    /\ alloc.pre_remaining < 0
    /\ alloc.count = 2
    /\ Len(alloc.delays) = 2
    /\ actions_taken = 2

\* C16 (as claimed): no numeric computation raises an error, whatever its
\* input: the reading time and the typing time of a text are returned for
\* every words-per-minute value, zero included.
C16_NoNumericError == text_call.called => text_call.outcome.raised = ""

\* C3: for every activity, every mean and variance multiplier and every draw,
\* generate_delay returns a value within [min_value, max_value] of the
\* activity's profile, and so never a negative one.
C3_DelayWithinProfile ==
    sample.called =>
        /\ PROFILES[sample.activity].min_value <= sample.delay
        /\ sample.delay <= PROFILES[sample.activity].max_value
        /\ sample.delay >= 0

\* C3 witness: a call with a multiplier other than one whose Gaussian draw was
\* negative, and which returned the profile's floor.
C3_Witness ==
    /\ sample.called
    /\ sample.multiplier # One
    /\ SampleRawDraw < 0
    /\ sample.delay = PROFILES[sample.activity].min_value

\* C20: every activity kind of the enumeration has exactly one timing profile
\* in the static table, every profile satisfies
\* 0 < min_value <= mean <= max_value with std_dev > 0, and no operation
\* modifies the table.
C20_ProfileTableWellFormed ==
    /\ [](/\ DOMAIN profiles = ActivityType
          /\ \A a \in ActivityType :
                /\ 0 < profiles[a].min_value
                /\ profiles[a].min_value <= profiles[a].mean
                /\ profiles[a].mean <= profiles[a].max_value
                /\ profiles[a].std_dev > 0)
    /\ [][profiles' = profiles]_vars

\* C20 witness: generate_delay has read the profile of an activity kind in the
\* table and returned.
C20_Witness ==
    /\ sample.called
    /\ sample.activity = "scroll_pause"
    /\ profiles[sample.activity] = TimingProfile(1200, 400, 300, 2500)

\* multiplier r is within [lo, hi], lo and hi in hundredths
Within(r, lo, hi) == lo * r[2] <= 100 * r[1] /\ 100 * r[1] <= hi * r[2]

\* C21: burst_activity(activity, count) returns exactly count delays, each
\* within the activity's [min_value, max_value]; the draws at index 0 and at
\* index count - 1 use a mean multiplier in [1.2, 1.5] and every other draw
\* one in [0.8, 1.2]; for count = 0 the result is empty.
C21_BurstShape ==
    burst.called =>
        /\ Len(burst.delays) = burst.count
        /\ Len(burst.multipliers) = burst.count
        /\ \A i \in 1..burst.count :
              /\ profiles[burst.activity].min_value <= burst.delays[i]
              /\ burst.delays[i] <= profiles[burst.activity].max_value
              /\ IF i = 1 \/ i = burst.count
                 THEN Within(burst.multipliers[i], 120, 150)
                 ELSE Within(burst.multipliers[i], 80, 120)

\* C21 witness: a burst of three whose last draw took a multiplier above 1.2
\* and whose interior draw took one below 1.
C21_Witness ==
    /\ burst.called
    /\ burst.count = 3
    /\ ~Within(burst.multipliers[3], 80, 120)
    /\ ~Within(burst.multipliers[2], 100, 150)
    /\ burst.delays[2] > profiles[burst.activity].min_value

(***************************************************************************)
(* Claims about the element safety classifier                              *)
(***************************************************************************)
\* the value a number text denotes, in tenths; 0 when it denotes none
TextTenths(text) ==
    IF text.kind = "num"
    THEN (IF text.neg THEN -1 ELSE 1) * (text.whole * 10 + text.frac)
    ELSE 0

\* the last is_element_safe call found the element and its script ran
SafeCallRan ==
    /\ safe_call.called
    /\ safe_call.q = "handle"
    /\ safe_call.ev = "ok"
    /\ ~ScriptThrows(element.snap)

\* the last is_element_visible call found the element and its script ran
VisibleCallRan ==
    /\ visible_call.called
    /\ visible_call.q = "handle"
    /\ visible_call.ev = "ok"

\* the seven conditions of visibility, as the claim lists them
SevenConditions(sn) ==
    /\ sn.display # "none"
    /\ sn.visibility # "hidden"
    /\ sn.opacity.kind = "num" /\ TextTenths(sn.opacity) > 0
    /\ sn.rect_width > 0
    /\ sn.rect_height > 0
    /\ TextTenths(sn.zIndex) >= 0
    /\ sn.rect_top < innerHeight /\ sn.rect_top + sn.rect_height > 0

\* C6 (as claimed): is_element_visible reports visible exactly when all seven
\* conditions hold, the vertical intersection with the viewport among them.
C6_VisibleIffSevenConditions ==
    VisibleCallRan =>
        (visible_call.result.is_visible <=> SevenConditions(element.snap))

\* the indicators of a honeypot, as the claim lists them
ClaimedIndicator(sn) ==
    \/ sn.display = "none"
    \/ sn.visibility = "hidden"
    \/ sn.opacity.kind = "num" /\ TextTenths(sn.opacity) = 0
    \/ sn.rect_left < -100
    \/ sn.rect_top < -100
    \/ sn.rect_left + sn.rect_width > innerWidth + 100
    \/ sn.zIndex.kind = "num" /\ TextTenths(sn.zIndex) < 0
    \/ sn.rect_width = 0
    \/ sn.rect_height = 0
    \/ sn.rect_width < 2 /\ sn.rect_height < 2
    \/ MatchesLexicon(sn.id)
    \/ MatchesLexicon(sn.className)
    \/ /\ sn.position = "fixed"
       /\ \/ sn.left.kind = "num" /\ TextTenths(sn.left) < -500
          \/ sn.top.kind = "num" /\ TextTenths(sn.top) < -500

\* C7 (as claimed): isHoneypot is true exactly when one of the listed
\* indicators is triggered, and is_element_safe returns its negation.
C7_HoneypotIffIndicator ==
    SafeCallRan =>
        /\ safe_call.result.details.isHoneypot <=> ClaimedIndicator(element.snap)
        /\ safe_call.result.is_safe <=> ~safe_call.result.details.isHoneypot

\* the call recorded in call found the element and its script ran
Ran(call) ==
    /\ call.called
    /\ call.q = "handle"
    /\ call.ev = "ok"
    /\ ~ScriptThrows(element.snap)

\* two classifications of the element gave the same verdict
SameVerdicts ==
    /\ (Ran(safe_call) /\ Ran(repeat_call.safe)) =>
          /\ safe_call.result.is_safe = repeat_call.safe.result.is_safe
          /\ safe_call.result.details.isHoneypot
                = repeat_call.safe.result.details.isHoneypot
          /\ safe_call.result.details.indicators
                = repeat_call.safe.result.details.indicators
    /\ (Ran(visible_call) /\ Ran(repeat_call.visible)) =>
          visible_call.result.is_visible = repeat_call.visible.result.is_visible

Scenario == { BaseSnapshot, [ BaseSnapshot EXCEPT !.zIndex = AutoText ] }

\* C18: in the 1920 x 1080 viewport the element of the scenario is
\* classified not a honeypot and visible; a z-index that is no number, such
\* as auto, counts as 0 and triggers no indicator.
C18_BaseScenario ==
    /\ (Ran(safe_call) /\ element.snap \in Scenario) =>
          /\ ~safe_call.result.details.isHoneypot
          /\ safe_call.result.is_safe
    /\ (Ran(visible_call) /\ element.snap \in Scenario) =>
          visible_call.result.is_visible
    /\ (Ran(safe_call) /\ element.snap.zIndex = AutoText) =>
          ~safe_call.result.details.indicators.negativeZIndex
    /\ (Ran(visible_call) /\ element.snap.zIndex = AutoText) =>
          visible_call.result.is_visible
             = all_checks(visibilityChecks([ element.snap EXCEPT
                                               !.zIndex = NumText(FALSE, 0, 0) ]))

\* C18 witness: the element of the scenario with the z-index auto has been
\* classified not a honeypot and visible.
C18_Witness ==
    /\ element.present
    /\ element.snap = [ BaseSnapshot EXCEPT !.zIndex = AutoText ]
    /\ Ran(safe_call) /\ safe_call.result.is_safe
    /\ Ran(visible_call) /\ visible_call.result.is_visible

\* C8: when the selector matches nothing, or the query or the evaluation
\* fails, is_element_safe reports not safe and is_element_visible reports not
\* visible, and neither call raises to its caller.
C8_FailClosed ==
    /\ safe_call.called =>
          /\ ~safe_call.result.raised
          /\ ~SafeCallRan => ~safe_call.result.is_safe
    /\ visible_call.called =>
          /\ ~visible_call.result.raised
          /\ ~VisibleCallRan => ~visible_call.result.is_visible

\* C8 witness: both calls were made on a selector that matches no element;
\* the first got None from the query, the second an exception.
C8_Witness ==
    /\ ~element.present
    /\ safe_call.called /\ safe_call.q = "none" /\ ~safe_call.result.is_safe
    /\ visible_call.called /\ visible_call.q = "raise"
    /\ ~visible_call.result.is_visible

(***************************************************************************)
(* Claims about safe_click                                                 *)
(***************************************************************************)
\* the call issued a click to the page
ClickIssued == \E i \in 1..Len(click_call.cmds) : click_call.cmds[i].op = "click"

\* C5: safe_click(selector) issues the click only after a negative honeypot
\* verdict and a positive visibility verdict; on a honeypot verdict, or on a
\* not-visible verdict, it returns False having issued no scroll-into-view, no
\* delay and no click.
C5_ClickOnlyWhenSafeAndVisible ==
    click_call.check_honeypot =>
        /\ ClickIssued =>
              /\ click_call.safe_verdict = "safe"
              /\ click_call.visible_verdict = "visible"
        /\ (click_call.safe_verdict = "honeypot" \/ click_call.visible_verdict = "hidden") =>
              /\ click_call.pc = "done"
              /\ click_call.returned = "False"
              /\ click_call.cmds = << >>

\* C5 witness: a call on an element the classifier finds to be a honeypot has
\* returned False with nothing issued.
C5_Witness ==
    /\ click_call.check_honeypot
    /\ element.present /\ isHoneypot(element.snap)
    /\ click_call.pc = "done"
    /\ click_call.safe_verdict = "honeypot"
    /\ click_call.returned = "False"
    /\ click_call.cmds = << >>

\* C14 (as claimed): for a target that passed the gate, the click sequence
\* is, in this order: scroll into view, one decision delay, the replay of a
\* planned pointer trajectory to the element, one click-delay wait of 20 to
\* 100 ms, the press, one page-load delay; no press comes before the replay
\* and the click-delay.
C14_ClickSequence ==
    (click_call.check_honeypot /\ click_call.returned = "True") =>
        /\ [ k \in 1..Len(click_call.cmds) |-> click_call.cmds[k].op ]
              = << "scroll_into_view", "wait", "replay", "wait", "click", "wait" >>
        /\ click_call.cmds[4].arg \in 20..100

(***************************************************************************)
(* Claims about the path planner                                           *)
(***************************************************************************)
\* the timestamp of sample k of the trajectory returned
Timestamp(k) == path_call.trajectory[k][3]

\* C9: for every start, end and target size, on the direct and on the
\* overshoot branch, the trajectory generate_path returns starts at timestamp
\* 0 and its timestamps never decrease from one sample to the next, the
\* junction of the overshoot and the corrective sub-path included.
C9_TimestampsMonotonic ==
    path_call.called =>
        /\ Len(path_call.trajectory) >= 1
        /\ Timestamp(1) = 0
        /\ \A k \in 1..(Len(path_call.trajectory) - 1) : Timestamp(k) <= Timestamp(k + 1)

\* C9 witness: an overshoot trajectory over a positive distance, whose
\* corrective sub-path takes time after the junction.
C9_Witness ==
    /\ path_call.called
    /\ path_call.rnd.should_overshoot
    /\ path_call.start # path_call.end
    /\ LET n1 == num_steps(path_call.start,
                           Point(path_call.start.x
                                   + ((path_call.end.x - path_call.start.x)
                                        * path_call.rnd.overshoot_ratio) \div 100,
                                 path_call.start.y
                                   + ((path_call.end.y - path_call.start.y)
                                        * path_call.rnd.overshoot_ratio) \div 100))
       IN  /\ Len(path_call.trajectory) > n1 + 1
           /\ Timestamp(n1 + 1) > 0
           /\ Timestamp(Len(path_call.trajectory)) > Timestamp(n1 + 1)

\* C12 (as claimed): calculate_movement_time uses max(1, target_width) as the
\* width: for every distance and every target width below one pixel, be it
\* zero, negative or a fraction, the movement time before the randomness is
\* the one of a target one pixel wide, and the value returned is not negative.
C12_WidthFlooredAtOne ==
    (path_call.called /\ path_call.fitts.target_width < 10) =>
        /\ path_call.fitts.movement_time =
              calculate_movement_time(path_call.fitts.distance, 10, 100)
        /\ path_call.fitts.returned >= 0

\* C19 (as claimed): the replay of a trajectory of n samples issues n pointer
\* moves in the order of the trajectory and n - 1 waits, a move and a wait
\* in turn; the wait after sample k is timestamp(k + 1) - timestamp(k), in
\* whole ms, and no wait follows the last sample; also when two samples of
\* the trajectory are equal tuples.
C19_ReplayFollowsTrajectory ==
    path_call.replayed =>
        LET n == Len(path_call.trajectory)
        IN  /\ Len(path_call.cmds) = 2 * n - 1
            /\ \A k \in 1..n :
                  path_call.cmds[2 * k - 1]
                     = Move(path_call.trajectory[k][1], path_call.trajectory[k][2])
            /\ \A k \in 1..(n - 1) :
                  path_call.cmds[2 * k]
                     = Wait((Timestamp(k + 1) - Timestamp(k)) \div 100)

Abs(a) == IF a >= 0 THEN a ELSE -a

\* clamp(floor(distance / 10), 10, 100) for the distance of a sub-path, which
\* is in tenths of a pixel
StepsOf(p, q) == Max(10, Min(100, distance_to(p, q) \div 100))

\* C25: an overshoot trajectory is a first sub-path from start to a point at
\* 1.05 to 1.15 times the vector from start to end, strictly beyond end along
\* the travel direction, given 70% of the movement time, followed by the
\* corrective sub-path to end given 30%, its timestamps offset by the final
\* timestamp of the first one and its first sample dropped: it has
\* N1 + N2 + 1 samples and its final timestamp is the movement time (to the
\* unit of the rounding); a direct trajectory has N + 1 samples and its
\* final timestamp is the movement time.
C25_OvershootShape ==
    path_call.called =>
        LET start == path_call.start
            end == path_call.end
            T == path_call.fitts.returned
            n == Len(path_call.trajectory)
            over == overshoot_point(start, end, path_call.rnd)
            N1 == StepsOf(start, over)
            N2 == StepsOf(over, end)
            dx == end.x - start.x
            dy == end.y - start.y
            along == (over.x - start.x) * dx + (over.y - start.y) * dy
        IN  IF path_call.rnd.should_overshoot
            THEN /\ n = N1 + N2 + 1
                 /\ Timestamp(N1 + 1) = (T * 7) \div 10
                 /\ \A k \in (N1 + 2)..n : Timestamp(k) >= Timestamp(N1 + 1)
                 /\ T - 1 <= Timestamp(n) /\ Timestamp(n) <= T
                 /\ 100 * along >= 105 * (dx * dx + dy * dy) - 100 * (Abs(dx) + Abs(dy))
                 /\ 100 * along <= 115 * (dx * dx + dy * dy) + 100 * (Abs(dx) + Abs(dy))
                 /\ start # end => along > dx * dx + dy * dy
            ELSE /\ n = StepsOf(start, end) + 1
                 /\ Timestamp(n) = T

\* C25 witness: an overshoot trajectory over a positive distance whose two
\* sub-paths have different numbers of steps and whose correction takes time.
C25_Witness ==
    /\ path_call.called
    /\ path_call.rnd.should_overshoot
    /\ path_call.start # path_call.end
    /\ StepsOf(path_call.start, overshoot_point(path_call.start, path_call.end, path_call.rnd))
          > StepsOf(overshoot_point(path_call.start, path_call.end, path_call.rnd), path_call.end)
    /\ Timestamp(Len(path_call.trajectory)) > Timestamp(Len(path_call.trajectory) - 1)

(***************************************************************************)
(* Claims about the session                                                *)
(***************************************************************************)
\* C4 (as claimed): every click the mission issues is preceded by a
\* classification of the click target by the safety classifier with the
\* verdict not-honeypot, and by a pointer trajectory planned to that target.
C4_ClickClassifiedAndPlanned ==
    \A k \in 1..Len(events) : events[k].classified /\ events[k].planned

\* C13: every scroll step of burst_scroll issues the position
\* min(current + scroll_amount, max_scroll_y), with the scroll amount and the
\* max_scroll_y of the viewport polled in that step, so the position issued
\* never exceeds that max_scroll_y; the step whose position reaches
\* max_scroll_y is the last of the pass, and a pass takes num_scrolls steps
\* at most.
C13_ScrollStepBounded ==
    [][ mission.pc = "scroll_step" =>
          /\ scroll_behavior.i < scroll_behavior.num_scrolls
          /\ scroll_behavior'.i <= scroll_behavior.num_scrolls
          /\ \A k \in 1..Len(step_cmds') :
                step_cmds'[k].op = "scrollTo" =>
                    /\ \E u \in AmountFactors :
                          step_cmds'[k].arg =
                              Min(scroll_behavior.current_position
                                    + (page.height * u) \div 100,
                                  page.max_scroll_y)
                    /\ step_cmds'[k].arg <= page.max_scroll_y
                    /\ step_cmds'[k].arg >= page.max_scroll_y =>
                          mission'.pc # "scroll_step" ]_vars

\* C13 witness: a pass of three steps at most has stopped after its second
\* step, whose position was cut down to the max_scroll_y of the page.
C13_Witness ==
    /\ mission.phase = 2
    /\ scroll_behavior.num_scrolls = 3
    /\ scroll_behavior.i = 2
    /\ page.max_scroll_y > 0
    /\ scroll_behavior.current_position = page.max_scroll_y
    /\ \E k \in 1..Len(step_cmds) :
          step_cmds[k].op = "scrollTo" /\ step_cmds[k].arg = page.max_scroll_y

\* the commands of the step under way are those of a scroll step
InScrollStep == \E k \in 1..Len(step_cmds) : step_cmds[k].op = "scrollTo"

\* C15 (as claimed): in a scrolling pass a hover is issued only on an element
\* the safety classifier finds not to be a honeypot and visible, and one
\* scroll pause has one hover at most.
C15_HoverGatedByClassifier ==
    InScrollStep =>
        /\ \A k \in 1..Len(step_cmds) :
              step_cmds[k].op = "hover" =>
                  LET sn == interesting_elements[step_cmds[k].arg]
                  IN  /\ ~isHoneypot(sn)
                      /\ all_checks(visibilityChecks(sn))
        /\ Cardinality({ k \in 1..Len(step_cmds) : step_cmds[k].op = "hover" }) <= 1

\* round(a / b) of Python for a >= 0 and b > 0: the nearest integer, a tie
\* going to the even one
Round(a, b) ==
    LET q == a \div b
        r == a % b
    IN  IF 2 * r > b \/ (2 * r = b /\ q % 2 = 1) THEN q + 1 ELSE q

\* C22 (as claimed): when no scroll count is given, the target scroll count
\* computed by burst_scroll is max(3, round((maxScrollY / viewportHeight) * u))
\* for a u of the draw's range: the product is rounded to the nearest integer.
C22_ScrollCountRounded ==
    (mission.pc = "scroll_step" /\ mission.phase # 1 /\ scroll_behavior.i = 0) =>
        \E u \in CountFactors :
            scroll_behavior.num_scrolls
               = Max(3, Round(page.max_scroll_y * u, page.height * 100))

\* C23 (as claimed): at every scroll step of every scrolling pass, the first
\* pass after a click has navigated to a new page included, the position the
\* step advances from is the page's current scroll position, as polled in
\* that step, and not a value cached earlier in the session.
C23_StepFromPolledPosition ==
    mission.pc = "scroll_step" =>
        scroll_behavior.current_position = page.scrollY

\* C24 (as claimed): when the random-interaction step of a session selects,
\* each of its candidates can be the one selected: for every candidate there
\* is a draw that selects it; and the selected index is within the list.
C24_EveryInteractionSelectable ==
    mission.pc = "random_interaction" =>
        /\ \A h \in Hashes : interaction_index(h) \in 0..(Len(interactions) - 1)
        /\ \A c \in 1..Len(interactions) :
              \E h \in Hashes : interactions[interaction_index(h) + 1] = interactions[c]

\* the number of reading pauses among the commands
RECURSIVE Pauses(_)
Pauses(cmds) ==
    IF cmds = << >> THEN 0
    ELSE (IF Head(cmds).op = "wait"
             /\ Head(cmds).activity \in { "READING_PARAGRAPH", "SCROLL_PAUSE" }
          THEN 1 ELSE 0) + Pauses(Tail(cmds))

\* C27: a read_and_explore pass starts with exactly one thinking delay, which
\* completes before the first viewport poll or scroll command of the pass;
\* after each scroll step that does not reach the bottom exactly one pause
\* (reading-paragraph or scroll-pause) is awaited, straight after the
\* scroll, and no pause follows the step that reaches the bottom.
C27_OrientThenPausedSteps ==
    /\ (mission.pc = "scroll_init" /\ mission.phase \in { 1, 3 }) =>
          step_cmds = << Step("wait", 0, "THINKING") >>
    /\ (mission.pc = "scroll_step" /\ mission.phase \in { 1, 3 }
           /\ scroll_behavior.i = 0) =>
          step_cmds = << Step("wait", 0, "THINKING"), Step("poll", 0, "") >>
    /\ (Len(step_cmds) >= 2 /\ step_cmds[2].op = "scrollTo"
           /\ mission.raised = "none") =>
          IF step_cmds[2].arg >= page.max_scroll_y
          THEN Pauses(step_cmds) = 0 /\ Len(step_cmds) = 2
          ELSE Pauses(step_cmds) = 1 /\ Pauses(SubSeq(step_cmds, 3, 3)) = 1

\* C27 witness: in the pass on the page reached by a click, a step short of
\* the bottom was followed by the longer pause and a hover.
C27_Witness ==
    /\ mission.phase = 3
    /\ mission.pc = "scroll_step"
    /\ Len(step_cmds) >= 5
    /\ step_cmds[2].op = "scrollTo"
    /\ step_cmds[2].arg < page.max_scroll_y
    /\ step_cmds[3] = Step("wait", 0, "READING_PARAGRAPH")
    /\ step_cmds[4].op = "hover"

\* C30 (as claimed): in _find_and_click_interesting_link the element that
\* receives the pointer movement and the click is the link whose href and
\* visibility were just checked, whatever its position among the matches of
\* the selector, and at most one link is clicked per invocation.
C30_ClickOnCheckedLink ==
    /\ \A k \in 1..Len(step_cmds) :
          step_cmds[k].op \in { "generate_path", "replay", "click" } =>
              CmdBefore(step_cmds, "scroll_into_view", step_cmds[k].arg, k)
    /\ Len(events) <= 1

\* C10 (as claimed): a failing call on the page during scrolling, be it the
\* inspection of the viewport or the scroll command, abandons the step under
\* way only: the mission is not aborted, and when it has ended each of its
\* four phases has been run.
C10_FailureAbandonsStepOnly ==
    mission.raised \in { "get_viewport_info", "scrollTo" } =>
        /\ mission.result = "True"
        /\ mission.phases = { 1, 2, 3, 4 }

(***************************************************************************)
(* Specifications                                                          *)
(***************************************************************************)
InitDelay ==
    DelayInit /\ BudgetIdle /\ ClassIdle /\ ClickIdle /\ PathIdle /\ SessIdle /\ TextIdle
NextDelay == GenerateDelay
SpecDelay == InitDelay /\ [][NextDelay]_vars

InitBudget ==
    DelayIdle /\ BudgetInit /\ ClassIdle /\ ClickIdle /\ PathIdle /\ SessIdle /\ TextIdle
NextBudget == Allocate
SpecBudget == InitBudget /\ [][NextBudget]_vars

InitClassify ==
    DelayIdle /\ BudgetIdle /\ ClassInit /\ ClickIdle /\ PathIdle /\ SessIdle /\ TextIdle
NextClassify == IsElementSafe \/ IsElementVisible
SpecClassify == InitClassify /\ [][NextClassify]_vars

InitSafeClick ==
    DelayIdle /\ BudgetIdle /\ ClassInit /\ ClickInit /\ PathIdle /\ SessIdle /\ TextIdle
NextSafeClick ==
    \/ SafeClickClassify
    \/ SafeClickVisibility
    \/ SafeClickScroll
    \/ SafeClickDecide
    \/ SafeClickPress
    \/ SafeClickLoad
SpecSafeClick == InitSafeClick /\ [][NextSafeClick]_vars

InitPath ==
    DelayIdle /\ BudgetIdle /\ ClassIdle /\ ClickIdle /\ PathInit /\ SessIdle /\ TextIdle
NextPath == GeneratePath \/ Replay
SpecPath == InitPath /\ [][NextPath]_vars

InitSession ==
    DelayIdle /\ BudgetIdle /\ ClassIdle /\ ClickIdle /\ PathIdle /\ SessInit /\ TextIdle
NextSession ==
    \/ Orient
    \/ ScrollInit
    \/ ScrollStep
    \/ FindLinks
    \/ TryLink
    \/ RandomInteraction
SpecSession == InitSession /\ [][NextSession]_vars

InitText ==
    DelayIdle /\ BudgetIdle /\ ClassIdle /\ ClickIdle /\ PathIdle /\ SessIdle /\ TextInit
NextText == GenerateReadingTime \/ GenerateTypingTime
SpecText == InitText /\ [][NextText]_vars

NextRepeat ==
    \/ IsElementSafe
    \/ IsElementVisible
    \/ IsElementSafeAgain
    \/ IsElementVisibleAgain
SpecRepeat == InitClassify /\ [][NextRepeat]_vars

InitBurst ==
    BurstInit /\ BudgetIdle /\ ClassIdle /\ ClickIdle /\ PathIdle /\ SessIdle /\ TextIdle
NextBurst == BurstActivity
SpecBurst == InitBurst /\ [][NextBurst]_vars

NextAccount == Allocate \/ GetRemainingTime
SpecAccount == InitBudget /\ [][NextAccount]_vars

=============================================================================
